---- MODULE Spec2Model ----
(***************************************************************************)
(* A model of the hsds-client library: the transport layer of client.rs,   *)
(* the credential strategies of auth.rs, the error taxonomy of error.rs    *)
(* and the resource facades under apis/.  One API call is a small state    *)
(* machine: the facade builds a plan (a request to send, or an early       *)
(* error), the request is sent, a response arrives, and the response is    *)
(* classified into the call's result.                                      *)
(***************************************************************************)
EXTENDS Integers, Sequences, FiniteSets, TLC

VARIABLES
    auth,       \* HsdsClient.auth: the credential strategy the client was built with
    base_url,   \* HsdsClient.base_url: the URL of the service the client was built with
    valuePool,  \* the native values the attribute calls draw their `value` argument from
    call,       \* the API call in progress: its plan, position, response and result
    wire,       \* the HTTP requests the current call has put on the network, in order
    store,      \* the state of the HSDS service the client talks to
    known,      \* what the caller has learnt from the results of earlier calls
    parked,     \* the calls of the other tasks that share the client, each with its requests
    loader      \* the example upload tool (examples/h5_file_loader.rs): its file and its position

vars == <<auth, base_url, valuePool, call, wire, store, known, parked, loader>>

(***************************************************************************)
(* Bounds of the model.                                                    *)
(***************************************************************************)
MaxDepth == 3     \* nesting depth of the array values tried
MaxLen == 2       \* length of the arrays tried
MaxSends == 2     \* requests one call may put on the wire before the model stops counting
MaxObjects == 2   \* objects the service creates in one behaviour
MaxTasks == 2     \* tasks that make calls on one client at the same time
MaxNesting == 4   \* activations of load_group_recursive inside one another

(***************************************************************************)
(* Text.  A byte string is a sequence of byte values (auth.rs works on     *)
(* bytes); a str is a sequence of characters, each a one-character string, *)
(* whose UTF-8 width matters to str::get.                                  *)
(***************************************************************************)
RECURSIVE SumSeq(_)
SumSeq(s) == IF s = <<>> THEN 0 ELSE Head(s) + SumSeq(Tail(s))

\* UTF-8 width of the characters the model uses
CharWidth(c) ==
    CASE c = "e2" -> 2      \* a two-byte character such as U+00E9
      [] c = "e3" -> 3      \* a three-byte character such as U+20AC
      [] OTHER -> 1

StrBytes(s) == SumSeq([i \in 1..Len(s) |-> CharWidth(s[i])])

IsCharBoundary(s, n) == \E k \in 0..Len(s) : StrBytes(SubSeq(s, 1, k)) = n

None == [some |-> FALSE]
Some(v) == [some |-> TRUE, v |-> v]

\* str::get(lo..hi): None unless both ends are char boundaries inside the str
StrGet(s, lo, hi) ==
    IF lo <= hi /\ hi <= StrBytes(s) /\ IsCharBoundary(s, lo) /\ IsCharBoundary(s, hi)
    THEN LET a == CHOOSE k \in 0..Len(s) : StrBytes(SubSeq(s, 1, k)) = lo
             b == CHOOSE k \in 0..Len(s) : StrBytes(SubSeq(s, 1, k)) = hi
         IN Some(SubSeq(s, a + 1, b))
    ELSE None

(***************************************************************************)
(* The error taxonomy (error.rs).  An error is a variant with a message;   *)
(* Api also carries the HTTP status.                                       *)
(***************************************************************************)
Msg(kind, status, text) == [kind |-> kind, status |-> status, text |-> text]

HsdsError(variant, status, message) ==
    [variant |-> variant, status |-> status, message |-> message]

api_error(status, message) == HsdsError("Api", status, message)
auth_error(message) == HsdsError("Auth", 0, message)
invalid_param(message) == HsdsError("InvalidParameter", 0, message)

Ok(v) == [ok |-> TRUE, v |-> v]
Err(e) == [ok |-> FALSE, e |-> e]

(***************************************************************************)
(* Base64 (the STANDARD engine: alphabet A-Z a-z 0-9 + /, padded with =),  *)
(* on byte strings, producing the ASCII bytes of the encoding.             *)
(***************************************************************************)
B64Char(i) ==
    CASE i < 26 -> 65 + i
      [] i >= 26 /\ i < 52 -> 97 + (i - 26)
      [] i >= 52 /\ i < 62 -> 48 + (i - 52)
      [] i = 62 -> 43
      [] OTHER -> 47

B64Pad == 61

RECURSIVE Base64Encode(_)
Base64Encode(b) ==
    IF Len(b) = 0 THEN <<>>
    ELSE IF Len(b) = 1 THEN
        <<B64Char(b[1] \div 4), B64Char((b[1] % 4) * 16), B64Pad, B64Pad>>
    ELSE IF Len(b) = 2 THEN
        <<B64Char(b[1] \div 4), B64Char((b[1] % 4) * 16 + b[2] \div 16),
          B64Char((b[2] % 16) * 4), B64Pad>>
    ELSE
        <<B64Char(b[1] \div 4), B64Char((b[1] % 4) * 16 + b[2] \div 16),
          B64Char((b[2] % 16) * 4 + b[3] \div 64), B64Char(b[3] % 64)>>
        \o Base64Encode(SubSeq(b, 4, Len(b)))

(***************************************************************************)
(* Credential strategies (auth.rs).  A header value is accepted by         *)
(* HeaderValue's parser when every byte is a tab or a visible byte.        *)
(***************************************************************************)
BasicAuth(username, password) ==
    [kind |-> "Basic", username |-> username, password |-> password, token |-> <<>>]
BearerAuth(token) ==
    [kind |-> "Bearer", username |-> <<>>, password |-> <<>>, token |-> token]
NoAuth == [kind |-> "None", username |-> <<>>, password |-> <<>>, token |-> <<>>]

AsciiColon == 58
AsciiBasic == <<66, 97, 115, 105, 99, 32>>          \* "Basic "
AsciiBearer == <<66, 101, 97, 114, 101, 114, 32>>   \* "Bearer "

HeaderValueParses(bytes) ==
    \A i \in 1..Len(bytes) : bytes[i] = 9 \/ (bytes[i] >= 32 /\ bytes[i] # 127)

InvalidAuthHeader == Msg("invalid_auth_header", 0, <<>>)

Header(name, value) == [name |-> name, value |-> value]

\* HeaderMap::insert: the value replaces any value the name had
HeaderInsert(headers, name, value) ==
    LET others == [i \in 1..Len(headers) |-> headers[i]]
        keep(i) == headers[i].name # name
        RECURSIVE Filter(_)
        Filter(i) == IF i > Len(headers) THEN <<>>
                     ELSE IF keep(i) THEN <<others[i]>> \o Filter(i + 1)
                     ELSE Filter(i + 1)
    IN Append(Filter(1), Header(name, value))

\* mutant: the colon between user name and password left out
BasicApplyAuth_no_colon(a, headers) ==
    LET credentials == a.username \o a.password
        encoded == Base64Encode(credentials)
        auth_value == AsciiBasic \o encoded
    IN IF HeaderValueParses(auth_value)
       THEN Ok(HeaderInsert(headers, "authorization", auth_value))
       ELSE Err(auth_error(InvalidAuthHeader))

BasicApplyAuth(a, headers) ==
    LET credentials == a.username \o <<AsciiColon>> \o a.password
        encoded == Base64Encode(credentials)
        auth_value == AsciiBasic \o encoded
    IN IF HeaderValueParses(auth_value)
       THEN Ok(HeaderInsert(headers, "authorization", auth_value))
       ELSE Err(auth_error(InvalidAuthHeader))

BearerApplyAuth(a, headers) ==
    LET auth_value == AsciiBearer \o a.token
    IN IF HeaderValueParses(auth_value)
       THEN Ok(HeaderInsert(headers, "authorization", auth_value))
       ELSE Err(auth_error(InvalidAuthHeader))

NoAuthApplyAuth(a, headers) == Ok(headers)

\* the dynamic dispatch of Arc<dyn Authentication>
apply_auth(a, headers) ==
    CASE a.kind = "Basic" -> BasicApplyAuth(a, headers)
      [] a.kind = "Bearer" -> BearerApplyAuth(a, headers)
      [] OTHER -> NoAuthApplyAuth(a, headers)


(***************************************************************************)
(* JSON values (serde_json::Value).  A number keeps serde_json's three     *)
(* forms: PosInt (a u64), NegInt (a negative i64) and Float.  A PosInt is  *)
(* v, or 2^63 + v when `big` is set, so the values on both sides of        *)
(* i64::MAX are present without leaving the model checker's integers.      *)
(***************************************************************************)
JNull == [t |-> "null"]
JBool(b) == [t |-> "bool", b |-> b]
JStr(s) == [t |-> "str", s |-> s]
JNum(n) == [t |-> "num", n |-> n]
JArr(items) == [t |-> "arr", items |-> items]
JObj(fields) == [t |-> "obj", fields |-> fields]

PosInt(big, v) == [kind |-> "PosInt", big |-> big, v |-> v]
NegInt(v) == [kind |-> "NegInt", big |-> FALSE, v |-> v]
Float(v) == [kind |-> "Float", big |-> FALSE, v |-> v]

JU64(v) == JNum(PosInt(FALSE, v))

\* Number::is_i64 and Number::is_u64
is_i64(n) ==
    CASE n.kind = "PosInt" -> ~n.big
      [] n.kind = "NegInt" -> TRUE
      [] OTHER -> FALSE

is_u64(n) == n.kind = "PosInt"

(***************************************************************************)
(* Native values handed to the generic attribute setters, and their        *)
(* serialization (serde_json::to_value).  A float stays a Float even when  *)
(* its value is whole (v counts halves: 2 is 1.0, 3 is 1.5); a float that  *)
(* is not finite serializes to null; a value that cannot be serialized (a  *)
(* map keyed by something that is not a string) is an error.               *)
(***************************************************************************)
RStr(s) == [r |-> "str", s |-> s]
RInt(v) == [r |-> "int", v |-> v]                      \* a signed integer
RUInt(big, v) == [r |-> "uint", big |-> big, v |-> v]  \* an unsigned integer
RFloat(v) == [r |-> "float", v |-> v]
RBool(b) == [r |-> "bool", b |-> b]
RVec(items) == [r |-> "vec", items |-> items]
RUnit == [r |-> "unit"]
RStruct(fields) == [r |-> "struct", fields |-> fields]
RBadMap == [r |-> "badmap"]
RNonFinite == [r |-> "nonfinite"]                      \* a NaN or an infinity

RECURSIVE to_value(_)
to_value(x) ==
    CASE x.r = "str" -> Ok(JStr(x.s))
      [] x.r = "int" -> Ok(JNum(IF x.v < 0 THEN NegInt(x.v) ELSE PosInt(FALSE, x.v)))
      [] x.r = "uint" -> Ok(JNum(PosInt(x.big, x.v)))
      [] x.r = "float" -> Ok(JNum(Float(x.v)))
      [] x.r = "nonfinite" -> Ok(JNull)
      [] x.r = "bool" -> Ok(JBool(x.b))
      [] x.r = "unit" -> Ok(JNull)
      [] x.r = "struct" ->
            LET fs == [k \in DOMAIN x.fields |-> to_value(x.fields[k])]
            IN IF \A k \in DOMAIN fs : fs[k].ok
               THEN Ok(JObj([k \in DOMAIN fs |-> fs[k].v]))
               ELSE Err("serialize")
      [] x.r = "vec" ->
            LET is == [i \in 1..Len(x.items) |-> to_value(x.items[i])]
            IN IF \A i \in 1..Len(is) : is[i].ok
               THEN Ok(JArr([i \in 1..Len(is) |-> is[i].v]))
               ELSE Err("serialize")
      [] OTHER -> Err("serialize")

(***************************************************************************)
(* Attribute type and shape inference (apis/attribute.rs).                 *)
(***************************************************************************)
VariableUtf8Type ==
    JObj([class |-> JStr("H5T_STRING"), charSet |-> JStr("H5T_CSET_UTF8"),
          length |-> JStr("H5T_VARIABLE")])

NumericType(class, base) == JObj([class |-> JStr(class), base |-> JStr(base)])

\* mutant: an unsigned integer above i64::MAX typed as a signed one
RECURSIVE infer_type_from_value_signed_only(_)
infer_type_from_value_signed_only(value) ==
    CASE value.t = "str" -> VariableUtf8Type
      [] value.t = "num" ->
            IF is_i64(value.n) \/ is_u64(value.n)
            THEN NumericType("H5T_INTEGER", "H5T_STD_I64LE")
            ELSE NumericType("H5T_FLOAT", "H5T_IEEE_F64LE")
      [] value.t = "bool" -> NumericType("H5T_INTEGER", "H5T_STD_U8LE")
      [] value.t = "arr" ->
            IF Len(value.items) = 0 THEN VariableUtf8Type
            ELSE infer_type_from_value_signed_only(value.items[1])
      [] OTHER -> VariableUtf8Type

\* mutant: the type of an array taken from its last element
RECURSIVE infer_type_from_value_of_last(_)
infer_type_from_value_of_last(value) ==
    CASE value.t = "str" -> VariableUtf8Type
      [] value.t = "num" ->
            IF is_i64(value.n) THEN NumericType("H5T_INTEGER", "H5T_STD_I64LE")
            ELSE IF is_u64(value.n) THEN NumericType("H5T_INTEGER", "H5T_STD_U64LE")
            ELSE NumericType("H5T_FLOAT", "H5T_IEEE_F64LE")
      [] value.t = "bool" -> NumericType("H5T_INTEGER", "H5T_STD_U8LE")
      [] value.t = "arr" ->
            IF Len(value.items) = 0 THEN VariableUtf8Type
            ELSE infer_type_from_value_of_last(value.items[Len(value.items)])
      [] OTHER -> VariableUtf8Type

RECURSIVE infer_type_from_value(_)
infer_type_from_value(value) ==
    CASE value.t = "str" -> VariableUtf8Type
      [] value.t = "num" ->
            IF is_i64(value.n) THEN NumericType("H5T_INTEGER", "H5T_STD_I64LE")
            ELSE IF is_u64(value.n) THEN NumericType("H5T_INTEGER", "H5T_STD_U64LE")
            ELSE NumericType("H5T_FLOAT", "H5T_IEEE_F64LE")
      [] value.t = "bool" -> NumericType("H5T_INTEGER", "H5T_STD_U8LE")
      [] value.t = "arr" ->
            IF Len(value.items) = 0 THEN VariableUtf8Type
            ELSE infer_type_from_value(value.items[1])
      [] OTHER -> VariableUtf8Type

infer_shape_from_value(value) ==
    IF value.t = "arr" THEN
        IF Len(value.items) = 0 THEN Some(<<0>>)
        ELSE LET shape == <<Len(value.items)>>
                 inner == value.items[1]
             IN IF inner.t = "arr" THEN Some(Append(shape, Len(inner.items)))
                ELSE Some(shape)
    ELSE None

\* the body set_attribute_auto builds from a serialized value
attr_data_of(json_value) ==
    LET inferred_type == infer_type_from_value(json_value)
        inferred_shape == infer_shape_from_value(json_value)
        base == [type |-> inferred_type, value |-> json_value]
    IN IF inferred_shape.some
       THEN JObj([k \in {"type", "value", "shape"} |->
                    CASE k = "type" -> inferred_type
                      [] k = "value" -> json_value
                      [] OTHER -> JArr([i \in 1..Len(inferred_shape.v) |->
                                          JU64(inferred_shape.v[i])])])
       ELSE JObj(base)


(***************************************************************************)
(* Requests (client.rs).  A path is a str whose literal parts are single   *)
(* chunks and whose id and name parts are characters; the query is the     *)
(* list of pairs added with RequestBuilder::query, the headers the list    *)
(* added with RequestBuilder::header.                                      *)
(***************************************************************************)
S(lit) == <<lit>>

NoBody == [t |-> "none"]

AsciiJson == <<97, 112, 112, 108, 105, 99, 97, 116, 105, 111, 110, 47, 106, 115, 111, 110>>   \* "application/json"

NoRequest ==
    [method |-> "", origin |-> "", path |-> <<>>, query |-> <<>>, headers |-> <<>>,
     body |-> NoBody]
NoError == HsdsError("", 0, Msg("", 0, <<>>))

\* the segments of a path that starts with a slash
RECURSIVE SplitPath(_)
SplitPath(p) ==
    IF p = <<>> THEN <<>>
    ELSE LET rest == Tail(p)
             stops == {i \in 1..Len(rest) : rest[i] = "/"}
             n == IF stops = {} THEN Len(rest)
                  ELSE (CHOOSE i \in stops : \A j \in stops : i <= j) - 1
         IN <<SubSeq(rest, 1, n)>> \o SplitPath(SubSeq(rest, n + 1, Len(rest)))

RECURSIVE JoinPath(_)
JoinPath(segs) ==
    IF segs = <<>> THEN <<>> ELSE <<"/">> \o Head(segs) \o JoinPath(Tail(segs))

\* a dot of a dot segment, plain or percent-escaped
IsDot(c) == c \in {".", "%2e", "%2E"}
IsSingleDot(seg) == Len(seg) = 1 /\ IsDot(seg[1])
IsDoubleDot(seg) == Len(seg) = 2 /\ IsDot(seg[1]) /\ IsDot(seg[2])

\* the URL parser's path state: `.` is dropped, `..` drops the segment before
\* it, and either of them at the end of the path leaves an empty last segment
RECURSIVE RemoveDotSegments(_, _)
RemoveDotSegments(segs, out) ==
    IF segs = <<>> THEN out
    ELSE LET seg == Head(segs)
             last == Len(segs) = 1
             kept == CASE IsDoubleDot(seg) ->
                            IF out = <<>> THEN out ELSE SubSeq(out, 1, Len(out) - 1)
                       [] IsSingleDot(seg) -> out
                       [] OTHER -> Append(out, seg)
             next == IF last /\ (IsDoubleDot(seg) \/ IsSingleDot(seg))
                     THEN Append(kept, <<>>) ELSE kept
         IN RemoveDotSegments(Tail(segs), next)

\* a URL: scheme, host and port as one text, and the path
Url(origin, path) == [origin |-> origin, path |-> path]

\* Url::join of a path onto the base URL.  Every path the facades build starts
\* with a slash, so it replaces the base URL's path, and its dot segments are
\* removed.  The names are percent-encoded before they get here; an object id
\* is not, so the first '?' or '#' of an id ends the path: what follows a '?'
\* up to a '#' is the URL's query, and what follows a '#' is the fragment,
\* which is not sent.
\* A base URL whose own path does not start with a slash (mailto:, data:)
\* cannot be a base, and nothing can be joined to it.
CannotBeABase(base) == base.path = <<>> \/ Head(base.path) # "/"

\* the index of the first of these characters in the text, or one past its end
FirstOfChars(text, chars) ==
    LET stops == {i \in 1..Len(text) : text[i] \in chars}
    IN IF stops = {} THEN Len(text) + 1 ELSE CHOOSE i \in stops : \A j \in stops : i <= j

\* the part of a joined reference that is its path
UrlPath(ref) == SubSeq(ref, 1, FirstOfChars(ref, {"?", "#"}) - 1)

\* the text of the query of a joined reference
UrlQuery(ref) ==
    LET rest == SubSeq(ref, FirstOfChars(ref, {"?", "#"}), Len(ref))
    IN IF rest = <<>> \/ Head(rest) = "#" THEN <<>>
       ELSE SubSeq(rest, 2, FirstOfChars(rest, {"#"}) - 1)

\* the pairs of a query text: split at '&', each piece at its first '='; a
\* piece's name is taken as the one chunk it is written as
RECURSIVE QueryPairs(_)
QueryPairs(text) ==
    IF text = <<>> THEN <<>>
    ELSE LET n == FirstOfChars(text, {"&"})
             piece == SubSeq(text, 1, n - 1)
             e == FirstOfChars(piece, {"="})
             rest == QueryPairs(SubSeq(text, n + 1, Len(text)))
         IN IF piece = <<>> THEN rest
            ELSE <<[k |-> IF e = 1 THEN "" ELSE piece[1], v |-> SubSeq(piece, e + 1, Len(piece))]>>
                 \o rest

url_join(base, path) ==
    IF CannotBeABase(base) THEN Err("RelativeUrlWithCannotBeABaseBase")
    ELSE Ok([origin |-> base.origin,
             path |-> JoinPath(RemoveDotSegments(SplitPath(UrlPath(path)), <<>>)),
             query |-> QueryPairs(UrlQuery(path))])

RECURSIVE AppendHeaders(_, _)
AppendHeaders(headers, more) ==
    IF more = <<>> THEN headers
    ELSE AppendHeaders(Append(headers, Head(more)), Tail(more))

\* mutant: a credential that gives no header is left out and the request is built
request_unauthenticated(self, method, path) ==
    LET url == url_join(self.base_url, path) IN
    IF ~url.ok THEN Err(HsdsError("Url", 0, Msg("url", 0, <<>>)))
    ELSE LET applied == apply_auth(self.auth, <<>>) IN
         Ok([method |-> method, origin |-> url.v.origin, path |-> url.v.path,
             query |-> url.v.query,
             headers |-> IF applied.ok THEN AppendHeaders(<<>>, applied.v) ELSE <<>>,
             body |-> NoBody])

\* HsdsClient::request: the URL, then the credential strategy's headers
request(self, method, path) ==
    LET url == url_join(self.base_url, path) IN
    IF ~url.ok THEN Err(HsdsError("Url", 0, Msg("url", 0, <<>>)))
    ELSE LET applied == apply_auth(self.auth, <<>>) IN
         IF ~applied.ok THEN Err(applied.e)
         ELSE Ok([method |-> method, origin |-> url.v.origin, path |-> url.v.path,
                  query |-> url.v.query,
                  headers |-> AppendHeaders(<<>>, applied.v), body |-> NoBody])

Pair(k, v) == [k |-> k, v |-> v]

\* RequestBuilder::query writes a value as application/x-www-form-urlencoded:
\* letters, digits and * - . _ stay, a space becomes +, and every other
\* character becomes the percent-escapes of its UTF-8 bytes
FormEncodeChar(c) ==
    CASE c = " " -> <<"+">>
      [] c = "+" -> <<"%2B">>
      [] c = "/" -> <<"%2F">>
      [] c = "?" -> <<"%3F">>
      [] c = "#" -> <<"%23">>
      [] c = "%" -> <<"%25">>
      [] c = "&" -> <<"%26">>
      [] c = "=" -> <<"%3D">>
      [] c = "[" -> <<"%5B">>
      [] c = "]" -> <<"%5D">>
      [] c = ":" -> <<"%3A">>
      [] c = ">" -> <<"%3E">>
      [] c = "e2" -> <<"%C3", "%A9">>
      [] c = "e3" -> <<"%E2", "%82", "%AC">>
      [] OTHER -> <<c>>

RECURSIVE FormEncode(_)
FormEncode(v) ==
    IF v = <<>> THEN <<>> ELSE FormEncodeChar(Head(v)) \o FormEncode(Tail(v))

\* RequestBuilder::query: one more pair at the end of the URL's query
with_param(req, k, v) == [req EXCEPT !.query = Append(@, Pair(k, FormEncode(v)))]

\* u32::to_string and the like: the decimal digits, as one chunk
DecStr(n) == <<ToString(n)>>

\* mutant: the domain goes out under the name `host`
with_domain_as_host(req, domain) == with_param(req, "host", domain)

with_domain(req, domain) == with_param(req, "domain", domain)

\* mutant: the limit is never sent
with_pagination_marker_only(req, limit, marker) ==
    IF marker.some THEN with_param(req, "Marker", marker.v) ELSE req

with_pagination(req, limit, marker) ==
    LET r1 == IF limit.some THEN with_param(req, "Limit", DecStr(limit.v)) ELSE req
    IN IF marker.some THEN with_param(r1, "Marker", marker.v) ELSE r1

with_selection(req, selection) == with_param(req, "select", selection)

\* mutant: the limit of a query is never sent
with_query_no_limit(req, query, limit) == with_param(req, "query", query)

with_query(req, query, limit) ==
    LET r1 == with_param(req, "query", query)
    IN IF limit.some THEN with_param(r1, "Limit", DecStr(limit.v)) ELSE r1

HasHeader(req, name) == \E i \in 1..Len(req.headers) : req.headers[i].name = name

\* RequestBuilder::json: the body, and a content type unless one is set
with_json(req, json) ==
    [req EXCEPT !.body = json,
                !.headers = IF HasHeader(req, "content-type") THEN @
                            ELSE Append(@, Header("content-type", AsciiJson))]

with_header(req, name, value) == [req EXCEPT !.headers = Append(@, Header(name, value))]

(***************************************************************************)
(* A plan is what a facade method has decided by the time it awaits the    *)
(* network: a request to send and how to read the response, or the error   *)
(* it returned early.                                                      *)
(***************************************************************************)
Plan(send, req, mode, T, err) ==
    [send |-> send, req |-> req, mode |-> mode, T |-> T, err |-> err]

execute(req, T) == Plan(TRUE, req, "json", T, NoError)
execute_bytes(req) == Plan(TRUE, req, "bytes", "Bytes", NoError)
Early(err) == Plan(FALSE, NoRequest, "", "", err)


(***************************************************************************)
(* Serialization of the request models (models.rs).  A field marked        *)
(* skip_serializing_if = "Option::is_none" is left out when it is None;    *)
(* any other Option field is written as null.                              *)
(***************************************************************************)
OrNull(opt) == IF opt.some THEN opt.v ELSE JNull

\* an object of the fields of `opts` (name -> Option of JSON) that are set
SkipNone(opts) ==
    JObj([k \in {n \in DOMAIN opts : opts[n].some} |-> opts[k].v])

MapOpt(opt, F(_)) == IF opt.some THEN Some(F(opt.v)) ELSE None

JU64Seq(dims) == JArr([i \in 1..Len(dims) |-> JU64(dims[i])])
JU64SeqSeq(points) == JArr([i \in 1..Len(points) |-> JU64Seq(points[i])])

ser_LinkRequest(l) == JObj([id |-> JStr(l.id), name |-> JStr(l.name)])

ser_DomainCreateRequest(r) == JObj([folder |-> OrNull(MapOpt(r.folder, JU64))])

ser_GroupCreateRequest(r) == JObj([link |-> OrNull(MapOpt(r.link, ser_LinkRequest))])

\* mutant: the fields that are not set are written as null
ser_LinkCreateRequest_with_nulls(r) ==
    JObj([id |-> OrNull(MapOpt(r.id, JStr)), h5path |-> OrNull(MapOpt(r.h5path, JStr)),
          h5domain |-> OrNull(MapOpt(r.h5domain, JStr))])

ser_LinkCreateRequest(r) ==
    SkipNone([id |-> MapOpt(r.id, JStr), h5path |-> MapOpt(r.h5path, JStr),
              h5domain |-> MapOpt(r.h5domain, JStr)])

ser_ShapeUpdateRequest(r) == JObj([shape |-> JU64Seq(r.shape)])

ser_DatasetValueRequest(r) ==
    SkipNone([start |-> MapOpt(r.start, JU64Seq), stop |-> MapOpt(r.stop, JU64Seq),
              step |-> MapOpt(r.step, JU64Seq), points |-> MapOpt(r.points, JU64SeqSeq),
              value |-> r.value, value_base64 |-> MapOpt(r.value_base64, JStr)])

StringLengthVariable(s) == [variant |-> "Variable", s |-> s, n |-> 0]
StringLengthFixed(n) == [variant |-> "Fixed", s |-> <<>>, n |-> n]

ser_StringLength(l) == IF l.variant = "Variable" THEN JStr(l.s) ELSE JU64(l.n)

ser_StringCharSet(c) == JStr(S(IF c = "Ascii" THEN "H5T_CSET_ASCII" ELSE "H5T_CSET_UTF8"))

ser_StringPadding(p) ==
    JStr(S(CASE p = "NullPad" -> "H5T_STR_NULLPAD"
             [] p = "NullTerm" -> "H5T_STR_NULLTERM"
             [] OTHER -> "H5T_STR_SPACEPAD"))

ser_StringDataType(t) ==
    JObj([class |-> JStr(t.class), charSet |-> ser_StringCharSet(t.char_set),
          strPad |-> ser_StringPadding(t.str_pad), length |-> ser_StringLength(t.length)])

ser_DataType(t) ==
    JObj([class |-> JStr(t.class), base |-> OrNull(MapOpt(t.base, JStr)),
          fields |-> OrNull(t.fields)])

Predefined(tag) == [variant |-> "Predefined", tag |-> tag]
Custom(dt) == [variant |-> "Custom", dt |-> dt]
StringSpec(sdt) == [variant |-> "String", sdt |-> sdt]

\* DataTypeSpec is untagged: the variant's content is written bare
ser_DataTypeSpec(t) ==
    CASE t.variant = "Predefined" -> JStr(t.tag)
      [] t.variant = "Custom" -> ser_DataType(t.dt)
      [] OTHER -> ser_StringDataType(t.sdt)

Dimensions(dims) == [variant |-> "Dimensions", dims |-> dims, s |-> <<>>]
NullShape(s) == [variant |-> "Null", dims |-> <<>>, s |-> s]

ser_ShapeSpec(sh) == IF sh.variant = "Dimensions" THEN JU64Seq(sh.dims) ELSE JStr(sh.s)

ser_DatasetCreateRequest(r) ==
    LET opts == [shape |-> MapOpt(r.shape, ser_ShapeSpec),
                 maxdims |-> MapOpt(r.maxdims, JU64Seq),
                 creationProperties |-> r.creation_properties,
                 link |-> MapOpt(r.link, ser_LinkRequest)]
        set == {n \in DOMAIN opts : opts[n].some}
    IN JObj([k \in set \cup {"type"} |->
               IF k = "type" THEN ser_DataTypeSpec(r.data_type) ELSE opts[k].v])

(***************************************************************************)
(* urlencoding::encode, per character: unreserved characters stay, every   *)
(* other character becomes the percent-escapes of its UTF-8 bytes.         *)
(***************************************************************************)
PctEncode(c) ==
    CASE c = "/" -> <<"%2F">>
      [] c = "?" -> <<"%3F">>
      [] c = "#" -> <<"%23">>
      [] c = "%" -> <<"%25">>
      [] c = " " -> <<"%20">>
      [] c = "e2" -> <<"%C3", "%A9">>
      [] c = "e3" -> <<"%E2", "%82", "%AC">>
      [] OTHER -> <<c>>

RECURSIVE urlencode(_)
urlencode(name) ==
    IF name = <<>> THEN <<>> ELSE PctEncode(Head(name)) \o urlencode(Tail(name))


(***************************************************************************)
(* The resource facades: each method as the plan it makes.  A method's     *)
(* `request` argument is called params here.                               *)
(***************************************************************************)
\* ---- apis/domain.rs

create_domain(self, domain, params) ==
    LET r == request(self, "PUT", <<"/">>) IN
    IF ~r.ok THEN Early(r.e)
    ELSE LET req == with_domain(r.v, domain) IN
         execute(IF params.some THEN with_json(req, ser_DomainCreateRequest(params.v))
                 ELSE req, "Domain")

\* mutant: the domain parameter left off
get_domain_without_domain(self, domain) ==
    LET r == request(self, "GET", <<"/">>) IN
    IF ~r.ok THEN Early(r.e)
    ELSE execute(r.v, "Domain")

get_domain(self, domain) ==
    LET r == request(self, "GET", <<"/">>) IN
    IF ~r.ok THEN Early(r.e)
    ELSE execute(with_domain(r.v, domain), "Domain")

delete_domain(self, domain) ==
    LET r == request(self, "DELETE", <<"/">>) IN
    IF ~r.ok THEN Early(r.e)
    ELSE execute(with_domain(r.v, domain), "Value")

list_domains(self) ==
    LET r == request(self, "GET", <<"/">>) IN
    IF ~r.ok THEN Early(r.e)
    ELSE execute(r.v, "Value")

create_folder(self, domain) ==
    create_domain(self, domain, Some([folder |-> Some(1)]))

\* ---- apis/group.rs

create_group(self, domain, params) ==
    LET r == request(self, "POST", <<"/", "groups">>) IN
    IF ~r.ok THEN Early(r.e)
    ELSE LET req == with_domain(r.v, domain) IN
         execute(IF params.some THEN with_json(req, ser_GroupCreateRequest(params.v))
                 ELSE req, "Group")

list_groups(self, domain) ==
    LET r == request(self, "GET", <<"/", "groups">>) IN
    IF ~r.ok THEN Early(r.e)
    ELSE execute(with_domain(r.v, domain), "Value")

get_group(self, domain, group_id, get_alias) ==
    LET r == request(self, "GET", <<"/", "groups", "/">> \o group_id) IN
    IF ~r.ok THEN Early(r.e)
    ELSE LET req == with_domain(r.v, domain) IN
         execute(IF get_alias.some
                 THEN with_param(req, "getalias", DecStr(get_alias.v))
                 ELSE req, "Group")

delete_group(self, domain, group_id) ==
    LET r == request(self, "DELETE", <<"/", "groups", "/">> \o group_id) IN
    IF ~r.ok THEN Early(r.e)
    ELSE execute(with_domain(r.v, domain), "Value")

\* ---- apis/link.rs

list_links(self, domain, group_id, limit, marker) ==
    LET r == request(self, "GET", <<"/", "groups", "/">> \o group_id \o <<"/", "links">>) IN
    IF ~r.ok THEN Early(r.e)
    ELSE execute(with_pagination(with_domain(r.v, domain), limit, marker), "Links")

create_link(self, domain, group_id, link_name, params) ==
    LET r == request(self, "PUT", <<"/", "groups", "/">> \o group_id \o <<"/", "links", "/">> \o urlencode(link_name)) IN
    IF ~r.ok THEN Early(r.e)
    ELSE execute(with_json(with_domain(r.v, domain), ser_LinkCreateRequest(params)), "Value")

get_link(self, domain, group_id, link_name) ==
    LET r == request(self, "GET", <<"/", "groups", "/">> \o group_id \o <<"/", "links", "/">> \o urlencode(link_name)) IN
    IF ~r.ok THEN Early(r.e)
    ELSE execute(with_domain(r.v, domain), "Value")

delete_link(self, domain, group_id, link_name) ==
    LET r == request(self, "DELETE", <<"/", "groups", "/">> \o group_id \o <<"/", "links", "/">> \o urlencode(link_name)) IN
    IF ~r.ok THEN Early(r.e)
    ELSE execute(with_domain(r.v, domain), "Value")

create_hard_link(self, domain, group_id, link_name, target_id) ==
    create_link(self, domain, group_id, link_name,
                [id |-> Some(target_id), h5path |-> None, h5domain |-> None])

create_soft_link(self, domain, group_id, link_name, target_path) ==
    create_link(self, domain, group_id, link_name,
                [id |-> None, h5path |-> Some(target_path), h5domain |-> None])

create_external_link(self, domain, group_id, link_name, target_path, target_domain) ==
    create_link(self, domain, group_id, link_name,
                [id |-> None, h5path |-> Some(target_path), h5domain |-> Some(target_domain)])

\* ---- apis/dataset.rs

create_dataset(self, domain, params) ==
    LET r == request(self, "POST", <<"/", "datasets">>) IN
    IF ~r.ok THEN Early(r.e)
    ELSE execute(with_json(with_domain(r.v, domain), ser_DatasetCreateRequest(params)), "Dataset")

list_datasets(self, domain) ==
    LET r == request(self, "GET", <<"/", "datasets">>) IN
    IF ~r.ok THEN Early(r.e)
    ELSE execute(with_domain(r.v, domain), "Datasets")

\* mutant: the dataset looked up among the groups
get_dataset_among_groups(self, domain, dataset_id) ==
    LET r == request(self, "GET", <<"/", "groups", "/">> \o dataset_id) IN
    IF ~r.ok THEN Early(r.e)
    ELSE execute(with_domain(r.v, domain), "Dataset")

get_dataset(self, domain, dataset_id) ==
    LET r == request(self, "GET", <<"/", "datasets", "/">> \o dataset_id) IN
    IF ~r.ok THEN Early(r.e)
    ELSE execute(with_domain(r.v, domain), "Dataset")

delete_dataset(self, domain, dataset_id) ==
    LET r == request(self, "DELETE", <<"/", "datasets", "/">> \o dataset_id) IN
    IF ~r.ok THEN Early(r.e)
    ELSE execute(with_domain(r.v, domain), "Value")

get_dataset_shape(self, domain, dataset_id) ==
    LET r == request(self, "GET", <<"/", "datasets", "/">> \o dataset_id \o <<"/", "shape">>) IN
    IF ~r.ok THEN Early(r.e)
    ELSE execute(with_domain(r.v, domain), "Value")

update_dataset_shape(self, domain, dataset_id, params) ==
    LET r == request(self, "PUT", <<"/", "datasets", "/">> \o dataset_id \o <<"/", "shape">>) IN
    IF ~r.ok THEN Early(r.e)
    ELSE execute(with_json(with_domain(r.v, domain), ser_ShapeUpdateRequest(params)), "Value")

get_dataset_type(self, domain, dataset_id) ==
    LET r == request(self, "GET", <<"/", "datasets", "/">> \o dataset_id \o <<"/", "type">>) IN
    IF ~r.ok THEN Early(r.e)
    ELSE execute(with_domain(r.v, domain), "Value")

write_dataset_values(self, domain, dataset_id, params) ==
    LET r == request(self, "PUT", <<"/", "datasets", "/">> \o dataset_id \o <<"/", "value">>) IN
    IF ~r.ok THEN Early(r.e)
    ELSE execute(with_json(with_domain(r.v, domain), ser_DatasetValueRequest(params)), "Value")

\* the select, query and limit arguments of the two value reads
read_params(req, select, query, limit) ==
    LET r1 == IF select.some THEN with_selection(req, select.v) ELSE req
    IN IF query.some THEN with_query(r1, query.v, limit) ELSE r1

AsciiAccept == AsciiJson

read_dataset_values(self, domain, dataset_id, select, query, limit) ==
    LET r == request(self, "GET", <<"/", "datasets", "/">> \o dataset_id \o <<"/", "value">>) IN
    IF ~r.ok THEN Early(r.e)
    ELSE execute_bytes(read_params(with_domain(r.v, domain), select, query, limit))

read_dataset_values_json(self, domain, dataset_id, select, query, limit) ==
    LET r == request(self, "GET", <<"/", "datasets", "/">> \o dataset_id \o <<"/", "value">>) IN
    IF ~r.ok THEN Early(r.e)
    ELSE execute(with_header(read_params(with_domain(r.v, domain), select, query, limit), "accept", AsciiAccept), "Value")

read_dataset_points(self, domain, dataset_id, points) ==
    LET r == request(self, "POST", <<"/", "datasets", "/">> \o dataset_id \o <<"/", "value">>) IN
    IF ~r.ok THEN Early(r.e)
    ELSE execute(with_json(with_domain(r.v, domain), JU64SeqSeq(points)), "Value")

\* ---- apis/datatype.rs

commit_datatype(self, domain, datatype_def) ==
    LET r == request(self, "POST", <<"/", "datatypes">>) IN
    IF ~r.ok THEN Early(r.e)
    ELSE execute(with_json(with_domain(r.v, domain), datatype_def), "Value")

get_datatype(self, domain, datatype_id) ==
    LET r == request(self, "GET", <<"/", "datatypes", "/">> \o datatype_id) IN
    IF ~r.ok THEN Early(r.e)
    ELSE execute(with_domain(r.v, domain), "Value")

delete_datatype(self, domain, datatype_id) ==
    LET r == request(self, "DELETE", <<"/", "datatypes", "/">> \o datatype_id) IN
    IF ~r.ok THEN Early(r.e)
    ELSE execute(with_domain(r.v, domain), "Value")

\* ---- apis/attribute.rs

list_attributes(self, domain, collection, obj_uuid) ==
    LET r == request(self, "GET", <<"/">> \o collection \o <<"/">> \o obj_uuid \o <<"/", "attributes">>) IN
    IF ~r.ok THEN Early(r.e)
    ELSE execute(with_domain(r.v, domain), "Value")

set_attribute_raw(self, domain, collection, obj_uuid, attr_name, attr_data) ==
    LET r == request(self, "PUT", <<"/">> \o collection \o <<"/">> \o obj_uuid \o <<"/", "attributes">> \o <<"/">>
                                    \o urlencode(attr_name)) IN
    IF ~r.ok THEN Early(r.e)
    ELSE execute(with_json(with_domain(r.v, domain), attr_data), "Value")

get_attribute(self, domain, collection, obj_uuid, attr_name) ==
    LET r == request(self, "GET", <<"/">> \o collection \o <<"/">> \o obj_uuid \o <<"/", "attributes">> \o <<"/">>
                                    \o urlencode(attr_name)) IN
    IF ~r.ok THEN Early(r.e)
    ELSE execute(with_domain(r.v, domain), "Value")

delete_attribute(self, domain, collection, obj_uuid, attr_name) ==
    LET r == request(self, "DELETE", <<"/">> \o collection \o <<"/">> \o obj_uuid \o <<"/", "attributes">> \o <<"/">>
                                    \o urlencode(attr_name)) IN
    IF ~r.ok THEN Early(r.e)
    ELSE execute(with_domain(r.v, domain), "Value")

list_group_attributes(self, domain, group_id) ==
    list_attributes(self, domain, S("groups"), group_id)

list_dataset_attributes(self, domain, dataset_id) ==
    list_attributes(self, domain, S("datasets"), dataset_id)

list_datatype_attributes(self, domain, datatype_id) ==
    list_attributes(self, domain, S("datatypes"), datatype_id)

FailedToSerialize == Msg("failed_to_serialize", 0, <<>>)
UnknownObjectIdFormat == Msg("unknown_object_id_format", 0, <<>>)

set_attribute_auto(self, domain, collection, obj_uuid, attr_name, value) ==
    LET json_value == to_value(value) IN
    IF ~json_value.ok THEN Early(HsdsError("InvalidParameter", 0, FailedToSerialize))
    ELSE set_attribute_raw(self, domain, collection, obj_uuid, attr_name,
                           attr_data_of(json_value.v))

\* mutant: the first two characters taken, whatever their width, and `t-` sent to datasets
collection_of_by_chars(object_id) ==
    IF Len(object_id) < 2 THEN None
    ELSE CASE SubSeq(object_id, 1, 2) = <<"g", "-">> -> Some(S("groups"))
           [] SubSeq(object_id, 1, 2) = <<"d", "-">> -> Some(S("datasets"))
           [] SubSeq(object_id, 1, 2) = <<"t", "-">> -> Some(S("datasets"))
           [] OTHER -> None

\* the collection an object id's first two bytes select
collection_of(object_id) ==
    LET prefix == StrGet(object_id, 0, 2) IN
    IF ~prefix.some THEN None
    ELSE CASE prefix.v = <<"g", "-">> -> Some(S("groups"))
           [] prefix.v = <<"d", "-">> -> Some(S("datasets"))
           [] prefix.v = <<"t", "-">> -> Some(S("datatypes"))
           [] OTHER -> None

\* mutant: an id of no known prefix is taken for a group's
set_attribute_to_groups(self, domain, object_id, attr_name, value) ==
    LET collection == collection_of(object_id) IN
    set_attribute_auto(self, domain, IF collection.some THEN collection.v ELSE S("groups"),
                       object_id, attr_name, value)

set_attribute(self, domain, object_id, attr_name, value) ==
    LET collection == collection_of(object_id) IN
    IF ~collection.some THEN Early(HsdsError("InvalidParameter", 0, UnknownObjectIdFormat))
    ELSE set_attribute_auto(self, domain, collection.v, object_id, attr_name, value)

(***************************************************************************)
(* Responses (client.rs).  A response is a status and a body; the body is  *)
(* bytes that are a JSON document or are not.                              *)
(***************************************************************************)
UNAUTHORIZED == 401
FORBIDDEN == 403
NOT_FOUND == 404
BAD_REQUEST == 400

JsonBody(json) == [parses |-> TRUE, json |-> json]
BadBody == [parses |-> FALSE, json |-> JNull]

Response(status, body) == [status |-> status, body |-> body]
NoResponse == Response(0, BadBody)

is_success(status) == status >= 200 /\ status <= 299

HasField(json, k) == k \in DOMAIN json.fields

\* an Option<String> field: absent or null is None, a string is Some, anything else fails
OptStrField(json, k) ==
    IF ~HasField(json, k) \/ json.fields[k].t = "null" THEN Ok(None)
    ELSE IF json.fields[k].t = "str" THEN Ok(Some(json.fields[k].s))
    ELSE Err("type")

\* an Option<u16> field such as ErrorResponse.code
OptU16Field(json, k) ==
    IF ~HasField(json, k) \/ json.fields[k].t = "null" THEN Ok(None)
    ELSE IF json.fields[k].t = "num" /\ json.fields[k].n.kind = "PosInt"
            /\ ~json.fields[k].n.big /\ json.fields[k].n.v < 65536
         THEN Ok(Some(json.fields[k].n.v))
    ELSE Err("type")

\* response.json::<ErrorResponse>()
parse_ErrorResponse(body) ==
    IF ~body.parses \/ body.json.t # "obj" THEN Err("decode")
    ELSE LET error == OptStrField(body.json, "error")
             message == OptStrField(body.json, "message")
             code == OptU16Field(body.json, "code")
         IN IF error.ok /\ message.ok /\ code.ok
            THEN Ok([error |-> error.v, message |-> message.v, code |-> code.v])
            ELSE Err("decode")

HttpStatusText(status) == Msg("http_status", status, <<>>)   \* format!("HTTP {}", status)
ServerText(text) == Msg("server", 0, text)

\* mutant: the `error` field preferred to `message`
error_message_error_first(status, body) ==
    LET parsed == parse_ErrorResponse(body) IN
    IF parsed.ok
    THEN IF parsed.v.error.some THEN ServerText(parsed.v.error.v)
         ELSE IF parsed.v.message.some THEN ServerText(parsed.v.message.v)
         ELSE HttpStatusText(status)
    ELSE HttpStatusText(status)

error_message(status, body) ==
    LET parsed == parse_ErrorResponse(body) IN
    IF parsed.ok
    THEN IF parsed.v.message.some THEN ServerText(parsed.v.message.v)
         ELSE IF parsed.v.error.some THEN ServerText(parsed.v.error.v)
         ELSE HttpStatusText(status)
    ELSE HttpStatusText(status)

\* mutant: 404 reported as a missing domain
handle_error_response_404_as_domain(status, body) ==
    LET message == error_message(status, body) IN
    CASE status = UNAUTHORIZED -> Err(auth_error(message))
      [] status = FORBIDDEN -> Err(HsdsError("PermissionDenied", 0, message))
      [] status = NOT_FOUND -> Err(HsdsError("DomainNotFound", 0, message))
      [] status = BAD_REQUEST -> Err(invalid_param(message))
      [] OTHER -> Err(api_error(status, message))

\* mutant: 403 classified like 401
handle_error_response_403_as_auth(status, body) ==
    LET message == error_message(status, body) IN
    CASE status = UNAUTHORIZED -> Err(auth_error(message))
      [] status = FORBIDDEN -> Err(auth_error(message))
      [] status = NOT_FOUND -> Err(HsdsError("ObjectNotFound", 0, message))
      [] status = BAD_REQUEST -> Err(invalid_param(message))
      [] OTHER -> Err(api_error(status, message))

handle_error_response(status, body) ==
    LET message == error_message(status, body) IN
    CASE status = UNAUTHORIZED -> Err(auth_error(message))
      [] status = FORBIDDEN -> Err(HsdsError("PermissionDenied", 0, message))
      [] status = NOT_FOUND -> Err(HsdsError("ObjectNotFound", 0, message))
      [] status = BAD_REQUEST -> Err(invalid_param(message))
      [] OTHER -> Err(api_error(status, message))

\* a struct whose only required field is a string `id` (Group, Dataset)
parse_WithId(json) ==
    IF json.t = "obj" /\ HasField(json, "id") /\ json.fields["id"].t = "str"
    THEN Ok([id |-> json.fields["id"].s, json |-> json])
    ELSE Err("decode")

parse_Domain(json) ==
    IF json.t # "obj" THEN Err("decode")
    ELSE LET root == OptStrField(json, "root")
             owner == OptStrField(json, "owner")
             class == OptStrField(json, "class")
         IN IF root.ok /\ owner.ok /\ class.ok
               /\ (class.v.some => class.v.v \in {S("domain"), S("folder")})
            THEN Ok([root |-> root.v, owner |-> owner.v, class |-> class.v])
            ELSE Err("decode")

IsLinkJson(json) ==
    json.t = "obj" /\ HasField(json, "title") /\ json.fields["title"].t = "str"

parse_Links(json) ==
    IF json.t = "obj" /\ HasField(json, "links") /\ json.fields["links"].t = "arr"
       /\ \A i \in 1..Len(json.fields["links"].items) : IsLinkJson(json.fields["links"].items[i])
    THEN Ok([links |-> json.fields["links"].items])
    ELSE Err("decode")

parse_Datasets(json) ==
    IF json.t = "obj" /\ HasField(json, "datasets") /\ json.fields["datasets"].t = "arr"
       /\ \A i \in 1..Len(json.fields["datasets"].items) :
             json.fields["datasets"].items[i].t = "str"
    THEN Ok([datasets |-> json.fields["datasets"].items])
    ELSE Err("decode")

\* response.json::<T>(): a failure is reqwest's decode error, which `?` turns into Http
DecodeError == HsdsError("Http", 0, Msg("decode", 0, <<>>))

deserialize(T, body) ==
    IF ~body.parses THEN Err(DecodeError)
    ELSE LET parsed == CASE T = "Domain" -> parse_Domain(body.json)
                         [] T = "Group" -> parse_WithId(body.json)
                         [] T = "Dataset" -> parse_WithId(body.json)
                         [] T = "Links" -> parse_Links(body.json)
                         [] T = "Datasets" -> parse_Datasets(body.json)
                         [] OTHER -> Ok(body.json)
         IN IF parsed.ok THEN parsed ELSE Err(DecodeError)

handle_response(T, response) ==
    IF is_success(response.status) THEN deserialize(T, response.body)
    ELSE handle_error_response(response.status, response.body)

handle_response_bytes(response) ==
    IF is_success(response.status) THEN Ok(response.body)
    ELSE handle_error_response(response.status, response.body)

\* what execute / execute_bytes return for a response
classify(plan, response) ==
    IF plan.mode = "bytes" THEN handle_response_bytes(response)
    ELSE handle_response(plan.T, response)

TransportError == HsdsError("Http", 0, Msg("transport", 0, <<>>))

\* mutant: a failed request is sent again
after_execute_retry(result) == IF result.ok THEN "done" ELSE "ready"

\* where a call stands once its response (or the failure to get one) is handled:
\* execute returns the result, whatever it is
after_execute(result) == "done"


(***************************************************************************)
(* One API call.  call.pc is "idle" before the first call, "ready" when    *)
(* the facade has built its request, "waiting" while the request is on the *)
(* wire and "done" when the method has returned call.result.               *)
(***************************************************************************)
NoResult == Err(NoError)

Self == [auth |-> auth, base_url |-> base_url]

(***************************************************************************)
(* What the caller of the client knows after a call: the ids the service   *)
(* has handed out, the entities it has seen created and not asked to       *)
(* delete since, and the entities it has seen deleted and not asked to     *)
(* create again since.                                                     *)
(***************************************************************************)
Entity(kind, domain, key) == [kind |-> kind, domain |-> domain, key |-> key]

LinkKey(group_id, link_name) == group_id \o <<"/">> \o link_name

DomainOps == {"create_domain", "create_folder", "get_domain", "delete_domain"}
GroupOps == {"get_group", "delete_group"}
DatasetOps == {"get_dataset", "delete_dataset"}
DatatypeOps == {"get_datatype", "delete_datatype"}
LinkCreateOps == {"create_link", "create_hard_link", "create_soft_link", "create_external_link"}
LinkOps == LinkCreateOps \cup {"get_link", "delete_link"}
GetOps == {"get_domain", "get_group", "get_dataset", "get_datatype", "get_link"}
DeleteOps == {"delete_domain", "delete_group", "delete_dataset", "delete_datatype", "delete_link"}

\* the entity a call is about
EntityOf(c) ==
    CASE c.op \in DomainOps -> Entity("domain", c.args.domain, <<>>)
      [] c.op \in GroupOps -> Entity("groups", c.args.domain, c.args.id)
      [] c.op \in DatasetOps -> Entity("datasets", c.args.domain, c.args.id)
      [] c.op \in DatatypeOps -> Entity("datatypes", c.args.domain, c.args.id)
      [] c.op \in LinkOps -> Entity("link", c.args.domain, LinkKey(c.args.id, c.args.name))
      [] OTHER -> Entity("", <<>>, <<>>)

\* the link a create_group or create_dataset call asks for, if any
LinkAskedFor(c) ==
    CASE c.op = "create_group" ->
            IF c.args.params.some THEN c.args.params.v.link ELSE None
      [] c.op = "create_dataset" -> c.args.params.link
      [] OTHER -> None

\* the ids a successful call returns
NewIds(c) ==
    IF ~c.result.ok THEN {}
    ELSE CASE c.op \in {"create_group", "create_dataset"} -> {c.result.v.id}
           [] c.op \in {"create_domain", "create_folder"} ->
                 IF c.result.v.root.some THEN {c.result.v.root.v} ELSE {}
           [] c.op = "commit_datatype" ->
                 IF c.result.v.t = "obj" /\ HasField(c.result.v, "id")
                    /\ c.result.v.fields["id"].t = "str"
                 THEN {c.result.v.fields["id"].s} ELSE {}
           [] OTHER -> {}

CreatedBy(c) ==
    IF ~c.result.ok THEN {}
    ELSE CASE c.op = "create_group" ->
                 {[kind |-> "groups", domain |-> c.args.domain, key |-> c.result.v.id,
                   root |-> None, owner |-> None]}
           [] c.op = "create_dataset" ->
                 {[kind |-> "datasets", domain |-> c.args.domain, key |-> c.result.v.id,
                   root |-> None, owner |-> None]}
           [] c.op \in {"create_domain", "create_folder"} ->
                 {[kind |-> "domain", domain |-> c.args.domain, key |-> <<>>,
                   root |-> c.result.v.root, owner |-> c.result.v.owner]}
           [] OTHER -> {}

\* the created entities a delete request may have removed, whatever its outcome
Unmade(k, c) ==
    IF ~c.plan.send THEN {}
    ELSE CASE c.op = "delete_domain" -> {e \in k.created : e.domain = c.args.domain}
           [] c.op \in {"delete_group", "delete_dataset", "delete_datatype"} ->
                 {e \in k.created : e.key = c.args.id}
           [] OTHER -> {}

DeletedBy(c) == IF c.result.ok /\ c.op \in DeleteOps THEN {EntityOf(c)} ELSE {}

\* the deleted entities a create request may have made again, whatever its outcome
Remade(c) ==
    IF ~c.plan.send THEN {}
    ELSE CASE c.op \in {"create_domain", "create_folder"} \cup LinkCreateOps -> {EntityOf(c)}
           [] LinkAskedFor(c).some ->
                 {Entity("link", c.args.domain,
                         LinkKey(LinkAskedFor(c).v.id, LinkAskedFor(c).v.name))}
           [] OTHER -> {}

\* what the caller learns from the call that has just returned
Learn(k, c) ==
    IF ~k.tracking THEN k
    ELSE [k EXCEPT !.ids = @ \cup NewIds(c),
                   !.created = (@ \ Unmade(k, c)) \cup CreatedBy(c),
                   !.deleted = (@ \ Remade(c)) \cup DeletedBy(c)]

IdleCall ==
    [op |-> "", args |-> [domain |-> <<>>], plan |-> Early(NoError), alone |-> Early(NoError),
     pc |-> "idle", response |-> NoResponse, result |-> NoResult, answered |-> FALSE]

\* a facade method is called: it builds its request, or returns early; `alone`
\* keeps what the method built from its arguments and the client at that moment
Start(op, args, plan) ==
    /\ call.pc = "idle"
    /\ call' = [op |-> op, args |-> args, plan |-> plan, alone |-> plan,
                pc |-> IF plan.send THEN "ready" ELSE "done",
                response |-> NoResponse,
                result |-> IF plan.send THEN NoResult ELSE Err(plan.err),
                answered |-> FALSE]
    /\ UNCHANGED <<auth, base_url, parked, loader, valuePool, wire, store, known>>

\* the caller takes the result; the client keeps nothing of the call
Return ==
    /\ call.pc = "done"
    /\ call' = IdleCall
    /\ wire' = <<>>
    /\ known' = Learn(known, call)
    /\ UNCHANGED <<auth, base_url, parked, loader, valuePool, store>>

\* RequestBuilder::send: the request goes on the wire
Send ==
    /\ call.pc = "ready"
    /\ Len(wire) < MaxSends
    /\ wire' = Append(wire, call.plan.req)
    /\ call' = [call EXCEPT !.pc = "waiting"]
    /\ UNCHANGED <<auth, base_url, parked, loader, valuePool, store, known>>

\* a response arrives and execute classifies it
Deliver(response) ==
    LET result == classify(call.plan, response) IN
    call' = [call EXCEPT !.response = response, !.result = result,
                         !.answered = TRUE, !.pc = after_execute(result)]

\* send fails: no response, the transport error is the result
Fail ==
    LET result == Err(TransportError) IN
    call' = [call EXCEPT !.result = result, !.pc = after_execute(result)]


(***************************************************************************)
(* The arguments the calls are tried with.                                 *)
(***************************************************************************)
Domains == {<<"/", "home", "/", "a", " ", "+", ".", "h5">>}

\* the attribute names of this behaviour's caller
AttrNames == known.attr_names
\* the link names of this behaviour's caller
LinkNames == known.names

MkId(prefix, n) == <<prefix, "-", ToString(n)>>

\* object ids of every routing case: the three prefixes, a foreign prefix, ids
\* shorter than the prefix, and ids whose second byte is inside a character
IdInputs ==
    {MkId("g", 1), MkId("d", 2), MkId("t", 3), MkId("x", 1), MkId("G", 1),
     <<>>, <<"g">>, <<"-", "g">>, <<"e2", "-">>, <<"e3", "-", "1">>, <<"g", "e2">>}

Collections == {S("groups"), S("datasets"), S("datatypes")}

\* ids for the calls whose routing does not depend on the id: a fixed one, or
\* the ids of that kind the service has handed out
Ids(prefix) ==
    IF known.tracking THEN {id \in known.ids : Head(id) = prefix}
    ELSE {MkId(prefix, 1)}

ObjectIds == IF known.tracking THEN known.ids ELSE IdInputs

OptionOf(set) == {None} \cup {Some(x) : x \in set}

DomainCreateRequests == OptionOf({[folder |-> f] : f \in OptionOf({0, 1, 2})})

LinkRequests == {[id |-> i, name |-> n] : i \in Ids("g"), n \in LinkNames}

GroupCreateRequests == OptionOf({[link |-> l] : l \in OptionOf(LinkRequests)})

LinkCreateRequests ==
    {[id |-> i, h5path |-> p, h5domain |-> d] :
        i \in OptionOf(Ids("d")), p \in OptionOf({S("/x")}), d \in OptionOf({S("/home/b.h5")})}

DatasetCreateRequests ==
    {[data_type |-> Predefined(S("H5T_STD_I32LE")), shape |-> sh, maxdims |-> None,
      creation_properties |-> None, link |-> l] :
        sh \in OptionOf({Dimensions(<<10>>)}), l \in OptionOf(LinkRequests)}

DatasetValueRequests ==
    {[start |-> st, stop |-> MapOpt(st, LAMBDA x : <<3>>), step |-> None, points |-> None,
      value |-> Some(JU64Seq(<<10, 20, 30>>)), value_base64 |-> None] :
        st \in OptionOf({<<0>>})}

ShapeUpdateRequests == {[shape |-> <<20>>]}

DatatypeDefs == {JObj([type |-> JStr(S("H5T_STD_I32LE"))])}

Selections == OptionOf({<<"[", "0", ":", "3", "]">>})
Queries == OptionOf({<<"x", ">", "1", "&", "y", "=", "2">>})
Limits == OptionOf({0, 1, 2})
Markers == OptionOf(LinkNames)

\* attribute bodies given to set_attribute_raw directly
AttrBodies == {attr_data_of(JU64(1)), attr_data_of(JStr(S("x")))}

(***************************************************************************)
(* The calls: one action for each public method of the facades.            *)
(***************************************************************************)

CallCreateDomain ==
    \E domain \in Domains, params \in DomainCreateRequests :
        Start("create_domain", [domain |-> domain, params |-> params],
              create_domain(Self, domain, params))

CallGetDomain ==
    \E domain \in Domains :
        Start("get_domain", [domain |-> domain],
              get_domain(Self, domain))

CallDeleteDomain ==
    \E domain \in Domains :
        Start("delete_domain", [domain |-> domain],
              delete_domain(Self, domain))

CallListDomains ==
    Start("list_domains", [domain |-> <<>>],
          list_domains(Self))

CallCreateFolder ==
    \E domain \in Domains :
        Start("create_folder", [domain |-> domain],
              create_folder(Self, domain))

CallCreateGroup ==
    \E domain \in Domains, params \in GroupCreateRequests :
        Start("create_group", [domain |-> domain, params |-> params],
              create_group(Self, domain, params))

CallListGroups ==
    \E domain \in Domains :
        Start("list_groups", [domain |-> domain],
              list_groups(Self, domain))

CallGetGroup ==
    \E domain \in Domains, group_id \in Ids("g"), get_alias \in OptionOf({1}) :
        Start("get_group", [domain |-> domain, id |-> group_id, get_alias |-> get_alias],
              get_group(Self, domain, group_id, get_alias))

CallDeleteGroup ==
    \E domain \in Domains, group_id \in Ids("g") :
        Start("delete_group", [domain |-> domain, id |-> group_id],
              delete_group(Self, domain, group_id))

CallListLinks ==
    \E domain \in Domains, group_id \in Ids("g"), limit \in Limits, marker \in Markers :
        Start("list_links", [domain |-> domain, id |-> group_id, limit |-> limit, marker |-> marker],
              list_links(Self, domain, group_id, limit, marker))

CallCreateLink ==
    \E domain \in Domains, group_id \in Ids("g"), link_name \in LinkNames, params \in LinkCreateRequests :
        Start("create_link", [domain |-> domain, id |-> group_id, name |-> link_name, params |-> params],
              create_link(Self, domain, group_id, link_name, params))

CallGetLink ==
    \E domain \in Domains, group_id \in Ids("g"), link_name \in LinkNames :
        Start("get_link", [domain |-> domain, id |-> group_id, name |-> link_name],
              get_link(Self, domain, group_id, link_name))

CallDeleteLink ==
    \E domain \in Domains, group_id \in Ids("g"), link_name \in LinkNames :
        Start("delete_link", [domain |-> domain, id |-> group_id, name |-> link_name],
              delete_link(Self, domain, group_id, link_name))

CallCreateHardLink ==
    \E domain \in Domains, group_id \in Ids("g"), link_name \in LinkNames, target_id \in Ids("d") :
        Start("create_hard_link", [domain |-> domain, id |-> group_id, name |-> link_name, target |-> target_id],
              create_hard_link(Self, domain, group_id, link_name, target_id))

CallCreateSoftLink ==
    \E domain \in Domains, group_id \in Ids("g"), link_name \in LinkNames :
        Start("create_soft_link", [domain |-> domain, id |-> group_id, name |-> link_name],
              create_soft_link(Self, domain, group_id, link_name, S("/x")))

CallCreateExternalLink ==
    \E domain \in Domains, group_id \in Ids("g"), link_name \in LinkNames :
        Start("create_external_link", [domain |-> domain, id |-> group_id, name |-> link_name],
              create_external_link(Self, domain, group_id, link_name, S("/x"), S("/home/b.h5")))

CallCreateDataset ==
    \E domain \in Domains, params \in DatasetCreateRequests :
        Start("create_dataset", [domain |-> domain, params |-> params],
              create_dataset(Self, domain, params))

CallListDatasets ==
    \E domain \in Domains :
        Start("list_datasets", [domain |-> domain],
              list_datasets(Self, domain))

CallGetDataset ==
    \E domain \in Domains, dataset_id \in Ids("d") :
        Start("get_dataset", [domain |-> domain, id |-> dataset_id],
              get_dataset(Self, domain, dataset_id))

CallDeleteDataset ==
    \E domain \in Domains, dataset_id \in Ids("d") :
        Start("delete_dataset", [domain |-> domain, id |-> dataset_id],
              delete_dataset(Self, domain, dataset_id))

CallGetDatasetShape ==
    \E domain \in Domains, dataset_id \in Ids("d") :
        Start("get_dataset_shape", [domain |-> domain, id |-> dataset_id],
              get_dataset_shape(Self, domain, dataset_id))

CallUpdateDatasetShape ==
    \E domain \in Domains, dataset_id \in Ids("d"), params \in ShapeUpdateRequests :
        Start("update_dataset_shape", [domain |-> domain, id |-> dataset_id, params |-> params],
              update_dataset_shape(Self, domain, dataset_id, params))

CallGetDatasetType ==
    \E domain \in Domains, dataset_id \in Ids("d") :
        Start("get_dataset_type", [domain |-> domain, id |-> dataset_id],
              get_dataset_type(Self, domain, dataset_id))

CallWriteDatasetValues ==
    \E domain \in Domains, dataset_id \in Ids("d"), params \in DatasetValueRequests :
        Start("write_dataset_values", [domain |-> domain, id |-> dataset_id, params |-> params],
              write_dataset_values(Self, domain, dataset_id, params))

CallReadDatasetValues ==
    \E domain \in Domains, dataset_id \in Ids("d"), select \in Selections, query \in Queries, limit \in Limits :
        Start("read_dataset_values", [domain |-> domain, id |-> dataset_id, select |-> select, query |-> query, limit |-> limit],
              read_dataset_values(Self, domain, dataset_id, select, query, limit))

CallReadDatasetValuesJson ==
    \E domain \in Domains, dataset_id \in Ids("d"), select \in Selections, query \in Queries, limit \in Limits :
        Start("read_dataset_values_json", [domain |-> domain, id |-> dataset_id, select |-> select, query |-> query, limit |-> limit],
              read_dataset_values_json(Self, domain, dataset_id, select, query, limit))

CallReadDatasetPoints ==
    \E domain \in Domains, dataset_id \in Ids("d") :
        Start("read_dataset_points", [domain |-> domain, id |-> dataset_id],
              read_dataset_points(Self, domain, dataset_id, <<<<0>>, <<2>>>>))

CallCommitDatatype ==
    \E domain \in Domains, datatype_def \in DatatypeDefs :
        Start("commit_datatype", [domain |-> domain],
              commit_datatype(Self, domain, datatype_def))

CallGetDatatype ==
    \E domain \in Domains, datatype_id \in Ids("t") :
        Start("get_datatype", [domain |-> domain, id |-> datatype_id],
              get_datatype(Self, domain, datatype_id))

CallDeleteDatatype ==
    \E domain \in Domains, datatype_id \in Ids("t") :
        Start("delete_datatype", [domain |-> domain, id |-> datatype_id],
              delete_datatype(Self, domain, datatype_id))

CallListAttributes ==
    \E domain \in Domains, collection \in Collections, obj_uuid \in Ids("g") :
        Start("list_attributes", [domain |-> domain, collection |-> collection, id |-> obj_uuid],
              list_attributes(Self, domain, collection, obj_uuid))

CallSetAttributeRaw ==
    \E domain \in Domains, collection \in Collections, obj_uuid \in Ids("g"), attr_name \in AttrNames, attr_data \in AttrBodies :
        Start("set_attribute_raw", [domain |-> domain, collection |-> collection, id |-> obj_uuid, name |-> attr_name, data |-> attr_data],
              set_attribute_raw(Self, domain, collection, obj_uuid, attr_name, attr_data))

CallGetAttribute ==
    \E domain \in Domains, collection \in Collections, obj_uuid \in Ids("g"), attr_name \in AttrNames :
        Start("get_attribute", [domain |-> domain, collection |-> collection, id |-> obj_uuid, name |-> attr_name],
              get_attribute(Self, domain, collection, obj_uuid, attr_name))

CallDeleteAttribute ==
    \E domain \in Domains, collection \in Collections, obj_uuid \in Ids("g"), attr_name \in AttrNames :
        Start("delete_attribute", [domain |-> domain, collection |-> collection, id |-> obj_uuid, name |-> attr_name],
              delete_attribute(Self, domain, collection, obj_uuid, attr_name))

CallListGroupAttributes ==
    \E domain \in Domains, group_id \in Ids("g") :
        Start("list_group_attributes", [domain |-> domain, id |-> group_id],
              list_group_attributes(Self, domain, group_id))

CallListDatasetAttributes ==
    \E domain \in Domains, dataset_id \in Ids("d") :
        Start("list_dataset_attributes", [domain |-> domain, id |-> dataset_id],
              list_dataset_attributes(Self, domain, dataset_id))

CallListDatatypeAttributes ==
    \E domain \in Domains, datatype_id \in Ids("t") :
        Start("list_datatype_attributes", [domain |-> domain, id |-> datatype_id],
              list_datatype_attributes(Self, domain, datatype_id))

CallSetAttributeAuto ==
    \E domain \in Domains, collection \in Collections, obj_uuid \in Ids("g"), attr_name \in AttrNames, value \in valuePool :
        Start("set_attribute_auto", [domain |-> domain, collection |-> collection, id |-> obj_uuid, name |-> attr_name, value |-> value],
              set_attribute_auto(Self, domain, collection, obj_uuid, attr_name, value))

CallSetAttribute ==
    \E domain \in Domains, object_id \in ObjectIds, attr_name \in AttrNames, value \in valuePool :
        Start("set_attribute", [domain |-> domain, id |-> object_id, name |-> attr_name, value |-> value],
              set_attribute(Self, domain, object_id, attr_name, value))

(***************************************************************************)
(* The client against an arbitrary service: any status, any body.          *)
(***************************************************************************)
AuthChoices ==
    {BasicAuth(<<97, 100, 109, 105, 110>>, <<97, 100, 109, 105, 110>>),  \* admin:admin
     BasicAuth(<<117, 10>>, <<112>>),                     \* a user name with a line feed
     BasicAuth(<<195, 169>>, <<112, 119, 100>>),          \* a two-byte character
     BearerAuth(<<116, 111, 107>>),                       \* tok
     BearerAuth(<<116, 10>>),                             \* a token with a line feed
     NoAuth}

SmallValues == {RInt(7), RStr(S("x")), RVec(<<RInt(1), RInt(2)>>), RBadMap}

EmptyObj == JObj([k \in {} |-> JNull])

ErrorBodies ==
    {BadBody,
     JsonBody(JStr(S("oops"))),
     JsonBody(EmptyObj),
     JsonBody(JObj([message |-> JStr(S("m"))])),
     JsonBody(JObj([error |-> JStr(S("e"))])),
     JsonBody(JObj([message |-> JStr(S("m")), error |-> JStr(S("e"))])),
     JsonBody(JObj([message |-> JNull, error |-> JStr(S("e"))])),
     JsonBody(JObj([message |-> JU64(5), error |-> JStr(S("e"))])),
     JsonBody(JObj([error |-> JStr(S("e")), code |-> JStr(S("x"))])),
     JsonBody(JObj([error |-> JStr(S("e")), code |-> JU64(7)]))}

SuccessBodies ==
    {BadBody,
     JsonBody(EmptyObj),
     JsonBody(JObj([id |-> JStr(MkId("g", 1))])),
     JsonBody(JObj([root |-> JStr(MkId("g", 1)), owner |-> JStr(S("admin")),
                    class |-> JStr(S("domain"))])),
     JsonBody(JObj([links |-> JArr(<<>>)])),
     JsonBody(JObj([datasets |-> JArr(<<JStr(MkId("d", 2))>>)]))}

SuccessStatuses == {200, 201}
ErrorStatuses == {304, 400, 401, 403, 404, 409, 410, 500}

EnvResponses ==
    {Response(st, b) : st \in SuccessStatuses, b \in SuccessBodies}
    \cup {Response(st, b) : st \in ErrorStatuses, b \in ErrorBodies}

ServiceUrl == Url("http://hsds:5101", <<"/">>)

\* the upload tool is not running
NoLoader == [pc |-> "off"]

EmptyStore == [domains |-> {}, objects |-> {}, attrs |-> {}, links |-> {}, next |-> 1]

OneLinkName == {<<"m", "/">>}
TwoAttrNames == {<<"a">>, <<"b", "/">>}

Untracked ==
    [tracking |-> FALSE, ids |-> {}, created |-> {}, deleted |-> {}, names |-> OneLinkName,
     attr_names |-> TwoAttrNames]

Init ==
    /\ auth \in AuthChoices
    /\ base_url = ServiceUrl
    /\ parked = <<>>
    /\ loader = NoLoader
    /\ valuePool = SmallValues
    /\ call = IdleCall
    /\ wire = <<>>
    /\ store = EmptyStore
    /\ known = Untracked

\* the service answers, with whatever it answers
EnvRespond ==
    /\ call.pc = "waiting"
    /\ \E response \in EnvResponses : Deliver(response)
    /\ UNCHANGED <<auth, base_url, parked, loader, valuePool, wire, store, known>>

\* the request never gets an answer
TransportFail ==
    /\ call.pc = "waiting"
    /\ Fail
    /\ UNCHANGED <<auth, base_url, parked, loader, valuePool, wire, store, known>>

Calls ==
    \/ CallCreateDomain
    \/ CallGetDomain
    \/ CallDeleteDomain
    \/ CallListDomains
    \/ CallCreateFolder
    \/ CallCreateGroup
    \/ CallListGroups
    \/ CallGetGroup
    \/ CallDeleteGroup
    \/ CallListLinks
    \/ CallCreateLink
    \/ CallGetLink
    \/ CallDeleteLink
    \/ CallCreateHardLink
    \/ CallCreateSoftLink
    \/ CallCreateExternalLink
    \/ CallCreateDataset
    \/ CallListDatasets
    \/ CallGetDataset
    \/ CallDeleteDataset
    \/ CallGetDatasetShape
    \/ CallUpdateDatasetShape
    \/ CallGetDatasetType
    \/ CallWriteDatasetValues
    \/ CallReadDatasetValues
    \/ CallReadDatasetValuesJson
    \/ CallReadDatasetPoints
    \/ CallCommitDatatype
    \/ CallGetDatatype
    \/ CallDeleteDatatype
    \/ CallListAttributes
    \/ CallSetAttributeRaw
    \/ CallGetAttribute
    \/ CallDeleteAttribute
    \/ CallListGroupAttributes
    \/ CallListDatasetAttributes
    \/ CallListDatatypeAttributes
    \/ CallSetAttributeAuto
    \/ CallSetAttribute

Next == Calls \/ Send \/ EnvRespond \/ TransportFail \/ Return

Spec == Init /\ [][Next]_vars

(***************************************************************************)
(* The HSDS service.  It is not part of the repository; this is the        *)
(* service as the specification describes it (sections 4.2 to 4.6 and 8):  *)
(* the routes of the wire contract, create answering with the new entity,  *)
(* get answering with the same entity while it exists, and 404 for an      *)
(* entity that does not exist.  Ids are never handed out twice.            *)
(***************************************************************************)
PctDecodeOne(c) ==
    CASE c = "%2F" -> "/"
      [] c = "%3F" -> "?"
      [] c = "%23" -> "#"
      [] c = "%25" -> "%"
      [] c = "%20" -> " "
      [] OTHER -> c

RECURSIVE PctDecode(_)
PctDecode(s) ==
    IF s = <<>> THEN <<>>
    ELSE IF Len(s) >= 3 /\ SubSeq(s, 1, 3) = <<"%E2", "%82", "%AC">>
         THEN <<"e3">> \o PctDecode(SubSeq(s, 4, Len(s)))
    ELSE IF Len(s) >= 2 /\ SubSeq(s, 1, 2) = <<"%C3", "%A9">>
         THEN <<"e2">> \o PctDecode(SubSeq(s, 3, Len(s)))
    ELSE <<PctDecodeOne(Head(s))>> \o PctDecode(Tail(s))

\* the value a form-urlencoded query value stands for
FormDecodeOne(c) ==
    CASE c = "+" -> " "
      [] c = "%2B" -> "+"
      [] c = "%26" -> "&"
      [] c = "%3D" -> "="
      [] c = "%5B" -> "["
      [] c = "%5D" -> "]"
      [] c = "%3A" -> ":"
      [] c = "%3E" -> ">"
      [] OTHER -> PctDecodeOne(c)

RECURSIVE FormDecode(_)
FormDecode(s) ==
    IF s = <<>> THEN <<>>
    ELSE IF Len(s) >= 3 /\ SubSeq(s, 1, 3) = <<"%E2", "%82", "%AC">>
         THEN <<"e3">> \o FormDecode(SubSeq(s, 4, Len(s)))
    ELSE IF Len(s) >= 2 /\ SubSeq(s, 1, 2) = <<"%C3", "%A9">>
         THEN <<"e2">> \o FormDecode(SubSeq(s, 3, Len(s)))
    ELSE <<FormDecodeOne(Head(s))>> \o FormDecode(Tail(s))

QueryParam(req, k) ==
    LET at == {i \in 1..Len(req.query) : req.query[i].k = k}
    IN IF at = {} THEN None
       ELSE Some(FormDecode(req.query[CHOOSE i \in at : \A j \in at : i <= j].v))

RECURSIVE SeqOf(_)
SeqOf(set) ==
    IF set = {} THEN <<>>
    ELSE LET x == CHOOSE x \in set : TRUE IN <<x>> \o SeqOf(set \ {x})

ServerOwner == S("admin")

Reply(status, json, st) == [response |-> Response(status, JsonBody(json)), store |-> st]
Refuse(status, st) == Reply(status, JObj([message |-> JStr(<<ToString(status)>>)]), st)

DomainJson(d) ==
    IF d.root.some
    THEN JObj([root |-> JStr(d.root.v), owner |-> JStr(d.owner), class |-> JStr(S("domain"))])
    ELSE JObj([owner |-> JStr(d.owner), class |-> JStr(S("folder"))])

DomainAt(st, path) == {d \in st.domains : d.path = path}

\* the domain parameter names a domain (not a folder) that exists
HoldsObjects(st, dom) == dom.some /\ \E d \in st.domains : d.path = dom.v /\ d.root.some

Object(id, collection, domain) == [id |-> id, collection |-> collection, domain |-> domain]
LinkAt(domain, group, title) == [domain |-> domain, group |-> group, title |-> title]

PrefixOf(collection) ==
    CASE collection = S("groups") -> "g"
      [] collection = S("datasets") -> "d"
      [] OTHER -> "t"

\* the `folder` flag of a create-domain body: 0 when there is none, -1 when it is no flag
FolderFlag(body) ==
    IF body.t = "none" THEN 0
    ELSE IF body.t # "obj" THEN -1
    ELSE IF ~HasField(body, "folder") \/ body.fields["folder"].t = "null" THEN 0
    ELSE IF body.fields["folder"].t = "num" /\ body.fields["folder"].n.kind = "PosInt"
            /\ ~body.fields["folder"].n.big /\ body.fields["folder"].n.v \in {0, 1}
         THEN body.fields["folder"].n.v
    ELSE -1

\* the parent link a create body asks for
BodyLink(body) ==
    IF /\ body.t = "obj"
       /\ HasField(body, "link")
       /\ body.fields["link"].t = "obj"
       /\ HasField(body.fields["link"], "id")
       /\ HasField(body.fields["link"], "name")
    THEN Some([id |-> body.fields["link"].fields["id"].s,
               name |-> body.fields["link"].fields["name"].s])
    ELSE None

ServeDomain(req, st, dom) ==
    CASE req.method = "PUT" ->
            IF ~dom.some THEN Refuse(400, st)
            ELSE IF DomainAt(st, dom.v) # {} THEN Refuse(409, st)
            ELSE LET flag == FolderFlag(req.body)
                     folder == [path |-> dom.v, root |-> None, owner |-> ServerOwner]
                     root == MkId("g", st.next)
                     d == [path |-> dom.v, root |-> Some(root), owner |-> ServerOwner]
                 IN IF flag = 1
                    THEN Reply(201, DomainJson(folder), [st EXCEPT !.domains = @ \cup {folder}])
                    ELSE IF flag # 0 THEN Refuse(400, st)
                    ELSE IF st.next > MaxObjects THEN Refuse(507, st)
                    ELSE Reply(201, DomainJson(d),
                               [st EXCEPT !.domains = @ \cup {d},
                                          !.objects = @ \cup {Object(root, S("groups"), dom.v)},
                                          !.next = @ + 1])
      [] req.method = "GET" ->
            IF ~dom.some
            THEN Reply(200, JObj([domains |-> JArr(SeqOf({JStr(d.path) : d \in st.domains}))]), st)
            ELSE IF DomainAt(st, dom.v) # {}
            THEN Reply(200, DomainJson(CHOOSE d \in DomainAt(st, dom.v) : TRUE), st)
            ELSE Refuse(404, st)
      [] req.method = "DELETE" ->
            IF ~dom.some THEN Refuse(400, st)
            ELSE IF DomainAt(st, dom.v) = {} THEN Refuse(404, st)
            ELSE Reply(200, JObj([domain |-> JStr(dom.v)]),
                       [st EXCEPT !.domains = @ \ DomainAt(st, dom.v),
                                  !.objects = {o \in @ : o.domain # dom.v},
                                  !.links = {l \in @ : l.domain # dom.v}])
      [] OTHER -> Refuse(405, st)

ServeCollection(req, st, dom, collection) ==
    IF req.method # "POST" THEN Refuse(405, st)
    ELSE IF ~HoldsObjects(st, dom) THEN Refuse(404, st)
    ELSE IF st.next > MaxObjects THEN Refuse(507, st)
    ELSE LET id == MkId(PrefixOf(collection), st.next)
             link == BodyLink(req.body)
         IN IF link.some /\ Object(link.v.id, S("groups"), dom.v) \notin st.objects
            THEN Refuse(404, st)
            ELSE Reply(201, JObj([id |-> JStr(id)]),
                       [st EXCEPT !.objects = @ \cup {Object(id, collection, dom.v)},
                                  !.links = IF link.some
                                            THEN @ \cup {LinkAt(dom.v, link.v.id, link.v.name)}
                                            ELSE @,
                                  !.next = @ + 1])

ServeObject(req, st, dom, collection, id) ==
    LET here == dom.some /\ Object(id, collection, dom.v) \in st.objects
        isRoot == \E d \in st.domains : d.path = dom.v /\ d.root = Some(id)
    IN CASE req.method = "GET" ->
               IF here THEN Reply(200, JObj([id |-> JStr(id), domain |-> JStr(dom.v)]), st)
               ELSE Refuse(404, st)
         [] req.method = "DELETE" ->
               IF ~here THEN Refuse(404, st)
               ELSE IF isRoot THEN Refuse(403, st)
               ELSE Reply(200, EmptyObj,
                          [st EXCEPT !.objects = @ \ {Object(id, collection, dom.v)},
                                     !.links = {l \in @ : ~(l.domain = dom.v /\ l.group = id)}])
         [] OTHER -> Refuse(405, st)

ServeLink(req, st, dom, group, title) ==
    IF ~(dom.some /\ Object(group, S("groups"), dom.v) \in st.objects) THEN Refuse(404, st)
    ELSE LET l == LinkAt(dom.v, group, title) IN
         CASE req.method = "PUT" ->
                 IF req.body.t = "obj"
                    /\ (HasField(req.body, "id") \/ HasField(req.body, "h5path"))
                 THEN Reply(201, EmptyObj, [st EXCEPT !.links = @ \cup {l}])
                 ELSE Refuse(400, st)
           [] req.method = "GET" ->
                 IF l \in st.links
                 THEN Reply(200, JObj([link |-> JObj([title |-> JStr(title)])]), st)
                 ELSE Refuse(404, st)
           [] req.method = "DELETE" ->
                 IF l \in st.links THEN Reply(200, EmptyObj, [st EXCEPT !.links = @ \ {l}])
                 ELSE Refuse(404, st)
           [] OTHER -> Refuse(405, st)

\* the number a query parameter spells in decimal, or -1
ParamNat(param) ==
    LET fits == {n \in 0..(MaxLen + 2) : DecStr(n) = param} IN
    IF fits = {} THEN -1 ELSE CHOOSE n \in fits : TRUE

\* the listing of a group's links: those after Marker, no more of them than Limit
ServeLinks(req, st, dom, group) ==
    IF req.method # "GET" THEN Refuse(405, st)
    ELSE IF ~(dom.some /\ Object(group, S("groups"), dom.v) \in st.objects) THEN Refuse(404, st)
    ELSE LET all == SeqOf({l.title : l \in {k \in st.links : k.domain = dom.v /\ k.group = group}})
             marker == QueryParam(req, "Marker")
             limit == QueryParam(req, "Limit")
             at == IF marker.some THEN {i \in 1..Len(all) : all[i] = marker.v} ELSE {}
             from == IF at = {} THEN 1 ELSE (CHOOSE i \in at : TRUE) + 1
             rest == SubSeq(all, from, Len(all))
             n == IF limit.some THEN ParamNat(limit.v) ELSE Len(rest)
             page == SubSeq(rest, 1, IF n < Len(rest) THEN n ELSE Len(rest))
         IN IF n < 0 THEN Refuse(400, st)
            ELSE Reply(200, JObj([links |-> JArr([i \in 1..Len(page) |->
                                                   JObj([title |-> JStr(page[i])])])]), st)

\* the service's answer to a request and the state it leaves
Serve(req, st) ==
    LET segs == SplitPath(req.path)
        dom == QueryParam(req, "domain")
    IN CASE segs = << <<>> >> -> ServeDomain(req, st, dom)
         [] Len(segs) = 1 /\ segs[1] \in Collections -> ServeCollection(req, st, dom, segs[1])
         [] Len(segs) = 2 /\ segs[1] \in Collections ->
               ServeObject(req, st, dom, segs[1], segs[2])
         [] Len(segs) = 3 /\ segs[1] = S("groups") /\ segs[3] = S("links") ->
               ServeLinks(req, st, dom, segs[2])
         [] Len(segs) = 4 /\ segs[1] = S("groups") /\ segs[3] = S("links") ->
               ServeLink(req, st, dom, segs[2], PctDecode(segs[4]))
         [] OTHER -> Refuse(404, st)

\* the service handles the request and its answer arrives
ServerRespond ==
    /\ call.pc = "waiting"
    /\ LET out == Serve(wire[Len(wire)], store)
       IN Deliver(out.response) /\ store' = out.store
    /\ UNCHANGED <<auth, base_url, parked, loader, valuePool, wire, known>>

\* the service handles the request and its answer never arrives
ResponseLost ==
    /\ call.pc = "waiting"
    /\ Fail
    /\ store' = Serve(wire[Len(wire)], store).store
    /\ UNCHANGED <<auth, base_url, parked, loader, valuePool, wire, known>>

InitServer ==
    /\ auth = BasicAuth(<<97, 100, 109, 105, 110>>, <<97, 100, 109, 105, 110>>)
    /\ base_url = ServiceUrl
    /\ parked = <<>>
    /\ loader = NoLoader
    /\ valuePool = SmallValues
    /\ call = IdleCall
    /\ wire = <<>>
    /\ store = EmptyStore
    /\ known = [Untracked EXCEPT !.tracking = TRUE]

NextServer ==
    \/ CallCreateDomain \/ CallGetDomain \/ CallDeleteDomain
    \/ CallCreateGroup \/ CallGetGroup \/ CallDeleteGroup
    \/ CallCreateDataset \/ CallGetDataset \/ CallDeleteDataset
    \/ CallCommitDatatype \/ CallGetDatatype \/ CallDeleteDatatype
    \/ CallCreateSoftLink \/ CallGetLink \/ CallDeleteLink
    \/ Send \/ ServerRespond \/ TransportFail \/ ResponseLost \/ Return

SpecServer == InitServer /\ [][NextServer]_vars

(***************************************************************************)
(* Several tasks on one client.  The methods take &self and a clone shares *)
(* the same base URL and credentials, so the tasks share the client and    *)
(* nothing else: each call is a future that owns its request from the      *)
(* moment it is built.  One task runs at a time in the model; any task may *)
(* be resumed at any await, which gives every interleaving of their steps. *)
(***************************************************************************)
Task(c, w) == [call |-> c, wire |-> w]

\* mutant: the request under construction is kept in the client, so a task
\* that is resumed finds the request of the task that ran before it
Resume_shared_builder(task, running) ==
    IF task.call.pc = "ready" /\ running.call.plan.send
    THEN [task EXCEPT !.call.plan.req = running.call.plan.req]
    ELSE task

\* what a task finds when it is polled again: the request it built itself
Resume(task, running) == task

\* the executor leaves the running task at an await and polls another one
Switch ==
    \E i \in 1..Len(parked) :
        LET task == Resume(parked[i], Task(call, wire)) IN
        /\ call' = task.call
        /\ wire' = task.wire
        /\ parked' = [parked EXCEPT ![i] = Task(call, wire)]
        /\ UNCHANGED <<auth, base_url, loader, valuePool, store, known>>

FewResponses ==
    {Response(200, JsonBody(JObj([id |-> JStr(MkId("d", 1))]))),
     Response(404, JsonBody(JObj([message |-> JStr(S("m"))]))),
     Response(500, BadBody)}

\* the service answers the running task's request
EnvRespondBriefly ==
    /\ call.pc = "waiting"
    /\ \E response \in FewResponses : Deliver(response)
    /\ UNCHANGED <<auth, base_url, parked, loader, valuePool, wire, store, known>>

InitShared ==
    /\ auth \in {BasicAuth(<<97, 100, 109, 105, 110>>, <<97, 100, 109, 105, 110>>),
                 BearerAuth(<<116, 10>>)}
    /\ base_url = ServiceUrl
    /\ parked = [i \in 1..(MaxTasks - 1) |-> Task(IdleCall, <<>>)]
    /\ loader = NoLoader
    /\ valuePool = SmallValues
    /\ call = IdleCall
    /\ wire = <<>>
    /\ store = EmptyStore
    /\ known = Untracked

NextShared ==
    \/ CallListDomains \/ CallGetDomain \/ CallCreateDomain \/ CallDeleteLink \/ CallGetDataset
    \/ Send \/ EnvRespondBriefly \/ TransportFail \/ Return \/ Switch

SpecShared == InitShared /\ [][NextShared]_vars

(***************************************************************************)
(* The calls that address an attribute or a link by its name, with names   *)
(* of every kind: plain, empty, dot segments, and the characters that end  *)
(* or split a URL path.                                                    *)
(***************************************************************************)
AllNames ==
    {<<"a">>, <<>>, <<".">>, <<".", ".">>, <<".", ".", ".">>, <<"b", "/", "c">>,
     <<"?", "x">>, <<"#">>, <<"%", "2", "F">>, <<"e2", " ">>}

InitNames ==
    /\ auth = BearerAuth(<<116, 111, 107>>)
    /\ base_url = ServiceUrl
    /\ parked = <<>>
    /\ loader = NoLoader
    /\ valuePool = SmallValues
    /\ call = IdleCall
    /\ wire = <<>>
    /\ store = EmptyStore
    /\ known = [Untracked EXCEPT !.names = AllNames, !.attr_names = AllNames]

NextNames ==
    \/ CallSetAttributeRaw \/ CallSetAttributeAuto \/ CallSetAttribute
    \/ CallGetAttribute \/ CallDeleteAttribute
    \/ CallCreateLink \/ CallCreateHardLink \/ CallCreateSoftLink \/ CallCreateExternalLink
    \/ CallGetLink \/ CallDeleteLink
    \/ Send \/ EnvRespond \/ TransportFail \/ Return

SpecNames == InitNames /\ [][NextNames]_vars

(***************************************************************************)
(* The service and a caller that fills one group with links and lists      *)
(* them page by page.                                                      *)
(***************************************************************************)
ManyLinkNames == {<<"p">>, <<"q", "/">>}

InitLinks ==
    /\ auth = BasicAuth(<<97, 100, 109, 105, 110>>, <<97, 100, 109, 105, 110>>)
    /\ base_url = ServiceUrl
    /\ parked = <<>>
    /\ loader = NoLoader
    /\ valuePool = SmallValues
    /\ call = IdleCall
    /\ wire = <<>>
    /\ store = EmptyStore
    /\ known = [Untracked EXCEPT !.tracking = TRUE, !.names = ManyLinkNames]

NextLinks ==
    \/ CallCreateDomain \/ CallCreateSoftLink \/ CallDeleteLink \/ CallListLinks
    \/ Send \/ ServerRespond \/ TransportFail \/ ResponseLost \/ Return

SpecLinks == InitLinks /\ [][NextLinks]_vars

(***************************************************************************)
(* Properties of the transport layer.                                      *)
(***************************************************************************)
Answered == call.pc = "done" /\ call.answered
ErrorAnswered == Answered /\ ~is_success(call.response.status)

\* C1: a response whose status is not 2xx makes the call return an error whose
\* variant the status alone fixes: 401 Auth, 403 PermissionDenied, 404
\* ObjectNotFound, 400 InvalidParameter, anything else Api carrying that status.
C1_StatusFixesVariant ==
    ErrorAnswered =>
        LET st == call.response.status
            e == call.result.e
        IN /\ ~call.result.ok
           /\ st = 401 => e.variant = "Auth"
           /\ st = 403 => e.variant = "PermissionDenied"
           /\ st = 404 => e.variant = "ObjectNotFound"
           /\ st = 400 => e.variant = "InvalidParameter"
           /\ st \notin {400, 401, 403, 404} => e.variant = "Api" /\ e.status = st
           /\ e.variant = "Api" =>
                 e.status \notin {400, 401, 403, 404} /\ ~(e.status >= 200 /\ e.status <= 299)

C1_Witness ==
    /\ ErrorAnswered
    /\ call.response.status = 410
    /\ call.result.e.variant = "Api"
    /\ call.plan.mode = "bytes"

\* the body is a JSON object that reads as an ErrorResponse
ReadsAsErrorObject(body) ==
    /\ body.parses
    /\ body.json.t = "obj"
    /\ \A k \in {"error", "message"} \cap DOMAIN body.json.fields :
          body.json.fields[k].t \in {"str", "null"}
    /\ "code" \in DOMAIN body.json.fields =>
          body.json.fields["code"].t \in {"num", "null"}

HasText(body, k) == k \in DOMAIN body.json.fields /\ body.json.fields[k].t = "str"

\* C2: the message of an error built from a non-2xx response is the body's
\* `message` if it has one, else its `error`, and "HTTP {status}" when the body
\* does not read as an error object or has neither.
C2_ErrorMessage ==
    ErrorAnswered =>
        LET body == call.response.body
            m == call.result.e.message
        IN IF ~ReadsAsErrorObject(body) THEN m = Msg("http_status", call.response.status, <<>>)
           ELSE IF HasText(body, "message") THEN m = Msg("server", 0, body.json.fields["message"].s)
           ELSE IF HasText(body, "error") THEN m = Msg("server", 0, body.json.fields["error"].s)
           ELSE m = Msg("http_status", call.response.status, <<>>)

C2_Witness ==
    /\ ErrorAnswered
    /\ ReadsAsErrorObject(call.response.body)
    /\ HasText(call.response.body, "message")
    /\ HasText(call.response.body, "error")
    /\ call.result.e.message = Msg("server", 0, S("m"))

B64Val(c) ==
    CASE c >= 65 /\ c <= 90 -> c - 65
      [] c >= 97 /\ c <= 122 -> c - 71
      [] c >= 48 /\ c <= 57 -> c + 4
      [] c = 43 -> 62
      [] OTHER -> 63

\* the bytes a padded base64 text stands for
RECURSIVE Base64Decode(_)
Base64Decode(t) ==
    IF Len(t) < 4 THEN <<>>
    ELSE LET a == B64Val(t[1])
             b == B64Val(t[2])
             c == B64Val(t[3])
             d == B64Val(t[4])
             rest == Base64Decode(SubSeq(t, 5, Len(t)))
         IN IF t[3] = 61 THEN <<a * 4 + b \div 16>>
            ELSE IF t[4] = 61 THEN <<a * 4 + b \div 16, (b % 16) * 16 + c \div 4>>
            ELSE <<a * 4 + b \div 16, (b % 16) * 16 + c \div 4, (c % 4) * 64 + d>> \o rest

AuthorizationValues(req) ==
    LET at == {i \in 1..Len(req.headers) : req.headers[i].name = "authorization"}
    IN [n |-> Cardinality(at), values |-> {req.headers[i].value : i \in at}]

CarriesCredentials(req) ==
    LET h == AuthorizationValues(req) IN
    CASE auth.kind = "Basic" ->
            /\ h.n = 1
            /\ \A v \in h.values :
                  /\ Len(v) >= 6
                  /\ SubSeq(v, 1, 6) = <<66, 97, 115, 105, 99, 32>>
                  /\ Base64Decode(SubSeq(v, 7, Len(v)))
                        = auth.username \o <<58>> \o auth.password
      [] auth.kind = "Bearer" ->
            /\ h.n = 1
            /\ h.values = {<<66, 101, 97, 114, 101, 114, 32>> \o auth.token}
      [] OTHER -> h.n = 0

\* C3: every request sent carries exactly one Authorization header, Basic with the
\* base64 of username:password or Bearer with the token, and none under NoAuth.
C3_AuthorizationHeader == \A i \in 1..Len(wire) : CarriesCredentials(wire[i])

C3_Witness ==
    /\ Len(wire) = 1
    /\ auth.kind = "Basic"
    /\ Len(auth.username \o auth.password) = 3
    /\ AuthorizationValues(wire[1]).n = 1

\* C4: a call sends at most one request, exactly one when its request was built,
\* and a failed request's error is returned without another request being sent.
C4_OneRequestPerCall ==
    /\ Len(wire) <= 1
    /\ call.pc = "waiting" => Len(wire) = 1
    /\ call.pc = "done" => Len(wire) = (IF call.plan.send THEN 1 ELSE 0)
    /\ (call.pc = "done" /\ call.plan.send
            /\ (~call.answered \/ ~is_success(call.response.status)))
          => ~call.result.ok

C4_Witness ==
    /\ call.pc = "done"
    /\ call.plan.send
    /\ ~call.answered
    /\ call.result = Err(TransportError)
    /\ Len(wire) = 1

StartsWith(s, prefix) == Len(s) >= Len(prefix) /\ SubSeq(s, 1, Len(prefix)) = prefix

PrefixCollection(id) ==
    CASE StartsWith(id, <<"g", "-">>) -> "groups"
      [] StartsWith(id, <<"d", "-">>) -> "datasets"
      [] StartsWith(id, <<"t", "-">>) -> "datatypes"
      [] OTHER -> ""

\* C5: set_attribute sends an id starting g- to groups, d- to datasets and t- to
\* datatypes, and returns InvalidParameter for every other id.
C5_PrefixRouting ==
    call.op = "set_attribute" =>
        LET id == call.args.id
            want == PrefixCollection(id)
        IN IF want = ""
           THEN /\ ~call.plan.send
                /\ call.plan.err.variant = "InvalidParameter"
                /\ Len(wire) = 0
           ELSE /\ call.plan.send =>
                    StartsWith(call.plan.req.path,
                               <<"/", want, "/">> \o id \o <<"/", "attributes", "/">>)
                /\ ~call.plan.send => call.plan.err.message # UnknownObjectIdFormat

C5_Witness ==
    /\ call.op = "set_attribute"
    /\ call.args.id = MkId("t", 3)
    /\ Len(wire) = 1
    /\ StartsWith(wire[1].path, <<"/", "datatypes", "/", "t", "-">>)

C5_WitnessRejected ==
    /\ call.op = "set_attribute"
    /\ call.args.id = <<"e3", "-", "1">>
    /\ call.pc = "done"
    /\ call.result = Err(HsdsError("InvalidParameter", 0, UnknownObjectIdFormat))

(***************************************************************************)
(* The attribute setters over values of every kind and nesting.            *)
(***************************************************************************)
Scalars ==
    {RStr(S("x")), RInt(7), RInt(-3), RUInt(FALSE, 5), RUInt(TRUE, 5), RFloat(2), RFloat(3),
     RNonFinite, RBool(TRUE), RBool(FALSE), RUnit, RStruct([a |-> RInt(1)]), RBadMap}

\* the array of the given dimensions whose leaves are all `leaf`
RECURSIVE Nested(_, _)
Nested(dims, leaf) ==
    IF dims = <<>> THEN leaf
    ELSE RVec([i \in 1..dims[1] |-> Nested(Tail(dims), leaf)])

\* an array whose last element is of another kind than its first
Ragged(v, other) ==
    IF v.r = "vec" /\ Len(v.items) >= 2
    THEN RVec([v.items EXCEPT ![Len(v.items)] = other])
    ELSE v

DimSeqs == UNION {[1..d -> 0..MaxLen] : d \in 0..MaxDepth}

InferValues ==
    {Nested(dims, leaf) : dims \in DimSeqs, leaf \in Scalars}
    \cup {Ragged(Nested(dims, leaf), RStr(S("z"))) : dims \in DimSeqs, leaf \in Scalars}

InitInfer ==
    /\ auth = NoAuth
    /\ base_url = ServiceUrl
    /\ parked = <<>>
    /\ loader = NoLoader
    /\ valuePool \in {{v} : v \in InferValues}
    /\ call = IdleCall
    /\ wire = <<>>
    /\ store = EmptyStore
    /\ known = Untracked

NextInfer == CallSetAttributeAuto \/ Send \/ TransportFail \/ Return

SpecInfer == InitInfer /\ [][NextInfer]_vars

AutoSent == call.op = "set_attribute_auto" /\ call.plan.send

\* C6: for a scalar value the type sent is fixed by the value's JSON kind: a string is
\* a variable-length UTF-8 string, an integer that fits i64 is H5T_STD_I64LE, an
\* unsigned integer above i64::MAX is H5T_STD_U64LE, any other number is
\* H5T_IEEE_F64LE, a boolean is H5T_STD_U8LE; and `value` is the serialized value.
C6_ScalarType ==
    AutoSent =>
        LET x == call.args.value
            fields == call.plan.req.body.fields
            isType(class, base) ==
                fields["type"] = JObj([class |-> JStr(class), base |-> JStr(base)])
        IN /\ fields["value"] = to_value(x).v
           /\ x.r = "str" =>
                 /\ fields["value"] = JStr(x.s)
                 /\ fields["type"] = JObj([class |-> JStr("H5T_STRING"),
                                           charSet |-> JStr("H5T_CSET_UTF8"),
                                           length |-> JStr("H5T_VARIABLE")])
           /\ x.r = "int" => isType("H5T_INTEGER", "H5T_STD_I64LE")
           /\ (x.r = "uint" /\ ~x.big) => isType("H5T_INTEGER", "H5T_STD_I64LE")
           /\ (x.r = "uint" /\ x.big) => isType("H5T_INTEGER", "H5T_STD_U64LE")
           /\ x.r = "float" => isType("H5T_FLOAT", "H5T_IEEE_F64LE")
           /\ x.r = "bool" =>
                 /\ fields["value"] = JBool(x.b)
                 /\ isType("H5T_INTEGER", "H5T_STD_U8LE")

C6_Witness ==
    /\ AutoSent
    /\ call.args.value = RUInt(TRUE, 5)
    /\ Len(wire) = 1
    /\ wire[1].body.fields["type"].fields["base"] = JStr("H5T_STD_U64LE")

\* the length of a JSON value at each nesting level, following first elements
RECURSIVE NestedLengths(_)
NestedLengths(j) ==
    IF j.t # "arr" THEN <<>>
    ELSE IF Len(j.items) = 0 THEN <<0>>
    ELSE <<Len(j.items)>> \o NestedLengths(j.items[1])

\* C7: an array value, of any nesting depth, is sent with a shape equal to its
\* lengths at each nesting level, and a scalar value is sent with no shape.
C7_ShapeAtEveryDepth ==
    AutoSent =>
        LET fields == call.plan.req.body.fields
            j == fields["value"]
            dims == NestedLengths(j)
        IN IF j.t = "arr"
           THEN /\ "shape" \in DOMAIN fields
                /\ fields["shape"] = JArr([i \in 1..Len(dims) |-> JU64(dims[i])])
           ELSE "shape" \notin DOMAIN fields

\* what the code does send: the lengths of the first two levels only
C7_ShapeOfTwoLevels ==
    AutoSent =>
        LET fields == call.plan.req.body.fields
            j == fields["value"]
            dims == NestedLengths(j)
            two == SubSeq(dims, 1, IF Len(dims) < 2 THEN Len(dims) ELSE 2)
        IN IF j.t = "arr"
           THEN /\ "shape" \in DOMAIN fields
                /\ fields["shape"] = JArr([i \in 1..Len(two) |-> JU64(two[i])])
           ELSE "shape" \notin DOMAIN fields

C7_Witness ==
    /\ AutoSent
    /\ call.args.value = Nested(<<1, 1, 1>>, RInt(7))
    /\ Len(wire) = 1
    /\ wire[1].body.fields["shape"] = JArr(<<JU64(1), JU64(1)>>)

(***************************************************************************)
(* Properties of the client against the service.                           *)
(***************************************************************************)
GetDone == call.pc = "done" /\ call.op \in GetOps

\* C8: once a delete of a domain, group, dataset, datatype or link has succeeded, a
\* get of the same entity never returns Ok, and when the service answers it the
\* result is the not-found error.
C8_GetAfterDelete ==
    (GetDone /\ EntityOf(call) \in known.deleted) =>
        /\ ~call.result.ok
        /\ call.answered =>
              /\ call.response.status = 404
              /\ call.result.e.variant = "ObjectNotFound"

C8_Witness ==
    /\ GetDone
    /\ call.op = "get_link"
    /\ EntityOf(call) \in known.deleted
    /\ call.answered
    /\ call.result.e.variant = "ObjectNotFound"
    /\ \E e \in known.deleted : e.kind = "datasets"

\* C9: a get of a domain, group or dataset that a create has returned, and that
\* no delete has been asked for since, succeeds when the service answers it: the
\* group or dataset has the id create returned, the domain the root and owner
\* create returned.
C9_GetAfterCreate ==
    (GetDone /\ call.answered) =>
        \A e \in known.created :
            (e.kind = EntityOf(call).kind /\ e.domain = EntityOf(call).domain
                /\ e.key = EntityOf(call).key) =>
                /\ call.result.ok
                /\ e.kind \in {"groups", "datasets"} => call.result.v.id = e.key
                /\ e.kind = "domain" =>
                      /\ call.result.v.root = e.root
                      /\ call.result.v.owner = e.owner

C9_Witness ==
    /\ GetDone
    /\ call.op = "get_dataset"
    /\ call.answered
    /\ call.result.ok
    /\ call.result.v.id = call.args.id
    /\ \E e \in known.created : e.kind = "datasets" /\ e.key = call.args.id
    /\ \E e \in known.created : e.kind = "domain" /\ e.root.some /\ e.owner.some

(***************************************************************************)
(* Properties of the listing of links (under SpecLinks).                   *)
(***************************************************************************)
\* the links the service holds for the group the call in progress is about
LinksHeld ==
    {l \in store.links : l.domain = call.args.domain /\ l.group = call.args.id}

ListedWithLimit ==
    /\ call.op = "list_links"
    /\ call.pc = "done"
    /\ call.result.ok
    /\ call.args.limit.some

\* C11: a list_links call made with limit = N that returns a Links value
\* returns one holding at most N links, whatever the group holds and whatever
\* the marker.
C11_LimitBoundsLinks ==
    ListedWithLimit => Len(call.result.v.links) <= call.args.limit.v

\* a group holding two links is listed with limit 1 and one link comes back
C11_Witness ==
    /\ ListedWithLimit
    /\ call.args.limit.v = 1
    /\ Cardinality(LinksHeld) = 2
    /\ Len(call.result.v.links) = 1

(***************************************************************************)
(* Properties of the requests the facades send (under Spec).               *)
(***************************************************************************)
\* the values of the query parameters of one name as the receiver reads them, in order
RECURSIVE QueryValues(_, _)
QueryValues(query, k) ==
    IF query = <<>> THEN <<>>
    ELSE (IF Head(query).k = k THEN <<FormDecode(Head(query).v)>> ELSE <<>>)
         \o QueryValues(Tail(query), k)

\* the parameter is sent once with the value supplied, or not at all
SentAsSupplied(req, k, arg) ==
    QueryValues(req.query, k) = (IF arg.some THEN <<arg.v>> ELSE <<>>)

ValueRead ==
    /\ call.op \in {"read_dataset_values", "read_dataset_values_json"}
    /\ Len(wire) = 1

\* C12 as stated: the two value reads send `select`, `query` and `Limit` exactly
\* when the select, query and limit arguments are supplied, with the supplied
\* values; a supplied limit is always sent.
C12_ParamsAsSupplied ==
    ValueRead =>
        /\ SentAsSupplied(wire[1], "select", call.args.select)
        /\ SentAsSupplied(wire[1], "query", call.args.query)
        /\ SentAsSupplied(wire[1], "Limit", MapOpt(call.args.limit, DecStr))

\* C12 as amended: `select` and `query` are sent exactly when supplied, and
\* `Limit` exactly when both the limit and a query are supplied.
C12_LimitWithQuery ==
    ValueRead =>
        /\ SentAsSupplied(wire[1], "select", call.args.select)
        /\ SentAsSupplied(wire[1], "query", call.args.query)
        /\ SentAsSupplied(wire[1], "Limit",
                          IF call.args.query.some THEN MapOpt(call.args.limit, DecStr) ELSE None)

\* a read with a query and a limit has gone out with both
C12_Witness ==
    /\ ValueRead
    /\ call.op = "read_dataset_values_json"
    /\ call.args.query.some
    /\ call.args.limit = Some(2)
    /\ QueryValues(wire[1].query, "Limit") = <<DecStr(2)>>

\* a read with a limit and no query has gone out without the limit
C12_WitnessDropped ==
    /\ ValueRead
    /\ ~call.args.query.some
    /\ call.args.limit.some
    /\ QueryValues(wire[1].query, "Limit") = <<>>

LinkCreateSent ==
    /\ call.op \in LinkCreateOps
    /\ Len(wire) = 1

\* the body is a JSON object of exactly these fields, each a string
IsObjectOf(body, fields) ==
    /\ body.t = "obj"
    /\ DOMAIN body.fields = DOMAIN fields
    /\ \A k \in DOMAIN fields : body.fields[k] = JStr(fields[k])

LinkShapes == {{"id"}, {"h5path"}, {"h5path", "h5domain"}}

\* C13 as stated: every body the four link-creating methods send holds only
\* `id`, only `h5path`, or `h5path` with `h5domain`, and no field that is null.
C13_ThreeShapes ==
    LinkCreateSent =>
        /\ wire[1].body.t = "obj"
        /\ DOMAIN wire[1].body.fields \in LinkShapes
        /\ \A k \in DOMAIN wire[1].body.fields : wire[1].body.fields[k].t = "str"

\* the fields of a LinkCreateRequest that are set, with their values
FieldsSet(r) ==
    [k \in {n \in {"id", "h5path", "h5domain"} : r[n].some} |-> r[k].v]

\* C13 as amended: create_hard_link sends only `id`, create_soft_link only
\* `h5path`, create_external_link `h5path` with `h5domain`; create_link sends
\* exactly the fields its LinkCreateRequest argument sets, none or any
\* combination of them; a field that is not set is left out, never null.
C13_ShapeAsRequested ==
    LinkCreateSent =>
        CASE call.op = "create_hard_link" ->
                IsObjectOf(wire[1].body, [id |-> call.args.target])
          [] call.op = "create_soft_link" ->
                IsObjectOf(wire[1].body, [h5path |-> S("/x")])
          [] call.op = "create_external_link" ->
                IsObjectOf(wire[1].body, [h5path |-> S("/x"), h5domain |-> S("/home/b.h5")])
          [] OTHER -> IsObjectOf(wire[1].body, FieldsSet(call.args.params))

\* an external link has gone out with its two fields and no `id`
C13_Witness ==
    /\ LinkCreateSent
    /\ call.op = "create_external_link"
    /\ DOMAIN wire[1].body.fields = {"h5path", "h5domain"}

\* create_link has sent a body of none of the three shapes
C13_WitnessOtherShape ==
    /\ LinkCreateSent
    /\ call.op = "create_link"
    /\ DOMAIN wire[1].body.fields \notin LinkShapes

(***************************************************************************)
(* Properties of the calls that name an attribute or a link (under         *)
(* SpecNames).                                                             *)
(***************************************************************************)
AttrNameOps ==
    {"set_attribute_raw", "set_attribute_auto", "set_attribute", "get_attribute",
     "delete_attribute"}

NameSent ==
    /\ call.op \in AttrNameOps \cup LinkOps
    /\ Len(wire) = 1

\* the path of the collection of attributes or links the call's name is in
NameStem ==
    CASE call.op \in LinkOps -> <<"/", "groups", "/">> \o call.args.id \o <<"/", "links">>
      [] call.op = "set_attribute" ->
            <<"/", PrefixCollection(call.args.id), "/">> \o call.args.id \o <<"/", "attributes">>
      [] OTHER -> <<"/">> \o call.args.collection \o <<"/">> \o call.args.id \o <<"/", "attributes">>

\* no character of the segment ends the path or splits it
IsEncodedSegment(seg) == \A i \in 1..Len(seg) : seg[i] \notin {"/", "?", "#", "%", " "}

\* the path is the stem followed by one more segment, which is the name encoded
NameIsLastSegment(path, stem, name) ==
    LET segs == SplitPath(path)
        n == Len(SplitPath(stem))
    IN /\ Len(segs) = n + 1
       /\ SubSeq(segs, 1, n) = SplitPath(stem)
       /\ IsEncodedSegment(segs[n + 1])
       /\ PctDecode(segs[n + 1]) = name

\* C14: for every attribute name and every link name, get, put and delete go
\* to the path /{collection}/{id}/attributes/{name}, respectively
\* /groups/{id}/links/{name}, with the name as one percent-encoded segment.
C14_NameIsOneSegment ==
    NameSent => NameIsLastSegment(wire[1].path, NameStem, call.args.name)

\* the same for every name that is not a dot segment
C14_PathOfOtherNames ==
    (NameSent /\ call.args.name \notin {<<".">>, <<".", ".">>}) =>
        NameIsLastSegment(wire[1].path, NameStem, call.args.name)

\* delete_link of the name `..` has gone to the path of the group itself
C14_Witness ==
    /\ NameSent
    /\ call.op = "delete_link"
    /\ call.args.name = <<".", ".">>
    /\ wire[1].method = "DELETE"
    /\ wire[1].path = <<"/", "groups", "/">> \o call.args.id \o <<"/">>

\* get_attribute of the name `.` has gone to the path of the listing, with a slash
C14_WitnessListing ==
    /\ NameSent
    /\ call.op = "get_attribute"
    /\ call.args.name = <<".">>
    /\ wire[1].path = NameStem \o <<"/">>

DomainVerb ==
    [create_domain |-> "PUT", create_folder |-> "PUT", get_domain |-> "GET",
     delete_domain |-> "DELETE", list_domains |-> "GET"]

DomainCallSent ==
    /\ call.op \in DOMAIN DomainVerb
    /\ Len(wire) = 1

\* no character of a query value ends the value, the pair or the query
IsFormEncoded(v) == \A i \in 1..Len(v) : v[i] \notin {" ", "&", "=", "#", "/", "?", "%"}

\* C15: create_domain, get_domain and delete_domain send PUT, GET and DELETE
\* to the path / with exactly one `domain` query parameter, whose value is
\* the domain argument; list_domains sends GET / with no `domain` parameter.
C15_DomainRequests ==
    DomainCallSent =>
        /\ wire[1].method = DomainVerb[call.op]
        /\ wire[1].path = <<"/">>
        /\ QueryValues(wire[1].query, "domain") =
              (IF call.op = "list_domains" THEN <<>> ELSE <<call.args.domain>>)
        /\ \A i \in 1..Len(wire[1].query) : IsFormEncoded(wire[1].query[i].v)

\* a delete of a domain whose name holds a space and a plus has gone out
C15_Witness ==
    /\ DomainCallSent
    /\ call.op = "delete_domain"
    /\ call.args.domain = <<"/", "home", "/", "a", " ", "+", ".", "h5">>
    /\ wire[1].query = <<Pair("domain", <<"%2F", "home", "%2F", "a", "+", "%2B", ".", "h5">>)>>

\* the listing has gone out with no parameter at all
C15_WitnessList ==
    /\ DomainCallSent
    /\ call.op = "list_domains"
    /\ wire[1].query = <<>>

DomainCreateSent ==
    /\ call.op \in {"create_domain", "create_folder"}
    /\ Len(wire) = 1

\* C16: a create-domain request has no body when the request argument is
\* None; a body it has is a JSON object whose `folder` is the number 0 or 1;
\* create_folder always sends `folder` = 1.
C16_FolderBody ==
    DomainCreateSent =>
        /\ (call.op = "create_domain" /\ ~call.args.params.some) => wire[1].body = NoBody
        /\ wire[1].body # NoBody =>
              /\ wire[1].body.t = "obj"
              /\ DOMAIN wire[1].body.fields = {"folder"}
              /\ wire[1].body.fields["folder"] \in {JU64(0), JU64(1)}
        /\ call.op = "create_folder" => wire[1].body = JObj([folder |-> JU64(1)])

\* what the code does: the body is there exactly when the request argument
\* is, and its `folder` is the argument's number, whatever it is, or null
C16_FolderAsGiven ==
    DomainCreateSent =>
        wire[1].body =
            CASE call.op = "create_folder" -> JObj([folder |-> JU64(1)])
              [] ~call.args.params.some -> NoBody
              [] ~call.args.params.v.folder.some -> JObj([folder |-> JNull])
              [] OTHER -> JObj([folder |-> JU64(call.args.params.v.folder.v)])

\* a create-domain request has gone out with `folder` = 2
C16_Witness ==
    /\ DomainCreateSent
    /\ call.op = "create_domain"
    /\ wire[1].body = JObj([folder |-> JU64(2)])

\* a create-domain request has gone out with `folder` null
C16_WitnessNull ==
    /\ DomainCreateSent
    /\ call.op = "create_domain"
    /\ wire[1].body = JObj([folder |-> JNull])

(***************************************************************************)
(* Properties of calls made at the same time on one client (under          *)
(* SpecShared).                                                            *)
(***************************************************************************)
AllTasks == <<Task(call, wire)>> \o parked

\* the task has sent what its call built from its own arguments and the
\* client, and its result is what that call makes of its own response
AsAlone(task) ==
    LET c == task.call IN
    /\ task.wire = (IF c.pc \in {"waiting", "done"} /\ c.alone.send THEN <<c.alone.req>>
                    ELSE <<>>)
    /\ c.pc = "done" =>
          c.result = (IF c.answered THEN classify(c.alone, c.response)
                      ELSE IF c.alone.send THEN Err(TransportError)
                      ELSE Err(c.alone.err))

EveryTaskAsAlone == \A i \in 1..Len(AllTasks) : AsAlone(AllTasks[i])

ClientUntouched == auth' = auth /\ base_url' = base_url

MAX_PAYLOAD_SIZE_BYTES == 950000
CHUNK_SIZE_ELEMENTS == 32768
MAX_CHUNK_ROWS == 128

Min(a, b) == IF a <= b THEN a ELSE b
Max(a, b) == IF a >= b THEN a ELSE b

RECURSIVE Product(_)
Product(dims) == IF dims = <<>> THEN 1 ELSE Head(dims) * Product(Tail(dims))

\* json!(data) of a nested array whose nesting has these lengths
JBlock(dims) == [t |-> "block", dims |-> dims]

\* Datatype::size of the file's element types
TypeSize(dtype) ==
    CASE dtype \in {"f64", "i64", "str"} -> 8
      [] dtype \in {"f32", "i32"} -> 4
      [] dtype \in {"i16", "u16"} -> 2
      [] OTHER -> 1

convert_hdf5_dtype_to_hsds(dtype) ==
    CASE dtype = "f64" -> Ok(S("H5T_IEEE_F64LE"))
      [] dtype = "f32" -> Ok(S("H5T_IEEE_F32LE"))
      [] dtype = "i64" -> Ok(S("H5T_STD_I64LE"))
      [] dtype = "i32" -> Ok(S("H5T_STD_I32LE"))
      [] dtype = "i16" -> Ok(S("H5T_STD_I16LE"))
      [] dtype = "i8" -> Ok(S("H5T_STD_I8LE"))
      [] dtype = "u8" -> Ok(S("H5T_STD_U8LE"))
      [] dtype = "str" -> Ok(S("H5T_STRING"))
      [] OTHER -> Err("Unsupported data type")

variable_ascii ==
    [class |-> S("H5T_STRING"), char_set |-> "Ascii", str_pad |-> "NullPad",
     length |-> StringLengthVariable(S("H5T_VARIABLE"))]

\* mutant: only the listed numeric tags are predefined, any other tag is a string
from_hsds_type_listed_only(hsds_type, dimensions) ==
    [data_type |-> IF hsds_type \in {S("H5T_STD_U8LE"), S("H5T_STD_I8LE"), S("H5T_STD_U16LE"),
                                     S("H5T_STD_I16LE"), S("H5T_STD_U32LE"), S("H5T_STD_I32LE"),
                                     S("H5T_STD_I64LE"), S("H5T_IEEE_F32LE"), S("H5T_IEEE_F64LE")}
                   THEN Predefined(hsds_type)
                   ELSE StringSpec(variable_ascii),
     shape |-> Some(Dimensions(dimensions)),
     maxdims |-> None,
     creation_properties |-> None,
     link |-> None]

from_hsds_type(hsds_type, dimensions) ==
    [data_type |-> IF hsds_type = S("H5T_STRING") THEN StringSpec(variable_ascii)
                   ELSE Predefined(hsds_type),
     shape |-> Some(Dimensions(dimensions)),
     maxdims |-> None,
     creation_properties |-> None,
     link |-> None]

from_hsds_type_with_link(hsds_type, dimensions, parent_group_id, dataset_name) ==
    [from_hsds_type(hsds_type, dimensions) EXCEPT
        !.link = Some([id |-> parent_group_id, name |-> dataset_name])]

\* the element types the chunked copies read
ChunkReadable(dtype) == dtype # "str"

\* copy_dataset_data: the size that selects the chunked copy
estimated_size(ds) == Product(ds.shape) * TypeSize(ds.dtype)

IsChunked(ds) == estimated_size(ds) > MAX_PAYLOAD_SIZE_BYTES

\* the step of the chunk loop: elements (1-D) or rows (2-D, 3-D)
chunk_step(shape) ==
    CASE Len(shape) = 1 -> Min(CHUNK_SIZE_ELEMENTS, shape[1])
      [] Len(shape) = 2 ->
            Min(Max(Min(MAX_PAYLOAD_SIZE_BYTES \div 20, CHUNK_SIZE_ELEMENTS) \div shape[2], 1),
                MAX_CHUNK_ROWS)
      [] OTHER -> Min(Max(CHUNK_SIZE_ELEMENTS \div shape[3], 1), shape[2])

\* the extent the chunk loop steps through, and the number of outer slices
chunk_extent(shape) == IF Len(shape) = 3 THEN shape[2] ELSE shape[1]
chunk_slices(shape) == IF Len(shape) = 3 THEN shape[1] ELSE 1

\* total_chunks, as the progress bar is given it
total_chunks(shape) ==
    chunk_slices(shape) * ((chunk_extent(shape) + chunk_step(shape) - 1) \div chunk_step(shape))

\* json!(chunk) of the elements of the flat array read from the file, from
\* index `from` on, nested with these lengths
JSlice(from, dims) == [t |-> "block", dims |-> dims, from |-> from]

\* the index in the flat array of the first element of the chunk at slice d
\* from position start: full_data[start..end], extract_2d_chunk's start_index,
\* copy_3d_chunked's slice_start
slice_start(shape, d, start) ==
    CASE Len(shape) = 1 -> start
      [] Len(shape) = 2 -> start * shape[2]
      [] OTHER -> d * (shape[2] * shape[3]) + start * shape[3]

\* mutant: the end of a chunk not cut at the end of the dataset
chunk_request_uncut(shape, d, start) ==
    LET end == start + chunk_step(shape)
        whole == [start |-> None, stop |-> None, step |-> None, points |-> None,
                  value |-> None, value_base64 |-> None]
    IN CASE Len(shape) = 1 ->
              [whole EXCEPT !.start = Some(<<start>>), !.stop = Some(<<end>>),
                            !.value = Some(JSlice(slice_start(shape, d, start), <<end - start>>))]
         [] Len(shape) = 2 ->
              [whole EXCEPT !.start = Some(<<start, 0>>), !.stop = Some(<<end, shape[2]>>),
                            !.value = Some(JSlice(slice_start(shape, d, start),
                                                  <<end - start, shape[2]>>))]
         [] OTHER ->
              [whole EXCEPT !.start = Some(<<d, start, 0>>),
                            !.stop = Some(<<d + 1, end, shape[3]>>),
                            !.value = Some(JSlice(slice_start(shape, d, start),
                                                  <<1, end - start, shape[3]>>))]

\* the DatasetValueRequest of the chunk at slice d, from position start
chunk_request(shape, d, start) ==
    LET end == Min(start + chunk_step(shape), chunk_extent(shape))
        whole == [start |-> None, stop |-> None, step |-> None, points |-> None,
                  value |-> None, value_base64 |-> None]
    IN CASE Len(shape) = 1 ->
              [whole EXCEPT !.start = Some(<<start>>), !.stop = Some(<<end>>),
                            !.value = Some(JSlice(slice_start(shape, d, start), <<end - start>>))]
         [] Len(shape) = 2 ->
              [whole EXCEPT !.start = Some(<<start, 0>>), !.stop = Some(<<end, shape[2]>>),
                            !.value = Some(JSlice(slice_start(shape, d, start),
                                                  <<end - start, shape[2]>>))]
         [] OTHER ->
              [whole EXCEPT !.start = Some(<<d, start, 0>>),
                            !.stop = Some(<<d + 1, end, shape[3]>>),
                            !.value = Some(JSlice(slice_start(shape, d, start),
                                                  <<1, end - start, shape[3]>>))]

\* copy_dataset_data_single: the whole dataset as one value
single_request(shape) ==
    [start |-> None, stop |-> None, step |-> None, points |-> None,
     value |-> Some(JBlock(shape)), value_base64 |-> None]

\* read_attribute_by_type: the scalar types it reads
read_attribute_by_type(attr) ==
    IF attr.dtype \in {"str", "f64", "f32", "i64", "i32"} THEN Ok(attr.value)
    ELSE Err("Unsupported attribute type")

(***************************************************************************)
(* The file being uploaded: groups, datasets and the hard links that give  *)
(* an object a further name.  A path is the sequence of member names from  *)
(* the root.                                                               *)
(***************************************************************************)
H5Attr(name, access, dtype, value) ==
    [name |-> name, access |-> access, dtype |-> dtype, value |-> value]

H5Group(path, members, attrs) ==
    [path |-> path, kind |-> "group", members |-> members, attrs |-> attrs,
     shape |-> <<>>, dtype |-> ""]

H5Dataset(path, shape, dtype, attrs) ==
    [path |-> path, kind |-> "dataset", members |-> <<>>, attrs |-> attrs,
     shape |-> shape, dtype |-> dtype]

\* a member that is neither a group nor a dataset (a committed datatype)
H5Other(path) ==
    [path |-> path, kind |-> "other", members |-> <<>>, attrs |-> <<>>,
     shape |-> <<>>, dtype |-> ""]

Title == H5Attr(S("title"), "ok", "str", RStr(S("t")))
Gain == H5Attr(S("gain"), "ok", "i64", RInt(7))
Packed == H5Attr(S("packed"), "ok", "u16", RInt(1))
Closed == H5Attr(S("closed"), "closed", "i64", RInt(0))

\* a file with every kind of member the tool tells apart
SampleFile ==
    {H5Group(<<>>, <<S("scan"), S("wave"), S("kind"), S("wide")>>, <<Title>>),
     H5Group(<<S("scan")>>, <<S("img"), S("cube")>>, <<Title, Packed, Closed, Gain>>),
     H5Dataset(<<S("scan"), S("img")>>, <<3, 400000>>, "u8", <<Gain>>),
     H5Dataset(<<S("scan"), S("cube")>>, <<2, 2, 300000>>, "u8", <<>>),
     H5Dataset(<<S("wave")>>, <<120000>>, "f64", <<Closed, Title>>),
     H5Other(<<S("kind")>>),
     H5Dataset(<<S("wide")>>, <<2, 2, 2, 20000>>, "f64", <<Title>>)}

\* a file of small and of skipped datasets, tables and text
TableFile ==
    {H5Group(<<>>, <<S("small"), S("codes"), S("meta"), S("names")>>, <<>>),
     H5Dataset(<<S("small")>>, <<2, 2>>, "i32", <<Gain>>),
     H5Dataset(<<S("codes")>>, <<4>>, "u16", <<Title>>),
     H5Group(<<S("meta")>>, <<S("table"), S("text")>>, <<Packed>>),
     H5Dataset(<<S("meta"), S("table")>>, <<600, 200>>, "f64", <<Title>>),
     H5Dataset(<<S("meta"), S("text")>>, <<60000, 2>>, "str", <<>>),
     H5Dataset(<<S("names")>>, <<120000>>, "str", <<Gain>>)}

H5Files == {SampleFile, TableFile}

\* a member name that is a hard link to the object at the path `target`
H5Link(path, target) ==
    [path |-> path, kind |-> "link", target |-> target, members |-> <<>>, attrs |-> <<>>,
     shape |-> <<>>, dtype |-> ""]

\* a file whose group /a holds a hard link to the root group
CycleFile ==
    {H5Group(<<>>, <<S("a")>>, <<>>),
     H5Group(<<S("a")>>, <<S("up")>>, <<Gain>>),
     H5Link(<<S("a"), S("up")>>, <<>>)}

\* a file whose group /a, with a dataset in it, is also the member /b
SharedFile ==
    {H5Group(<<>>, <<S("a"), S("b")>>, <<>>),
     H5Group(<<S("a")>>, <<S("img"), S("n")>>, <<Gain>>),
     H5Dataset(<<S("a"), S("img")>>, <<3, 400000>>, "u8", <<>>),
     H5Dataset(<<S("a"), S("n")>>, <<2>>, "i32", <<>>),
     H5Link(<<S("b")>>, <<S("a")>>)}

LinkedFiles == {CycleFile, SharedFile}

\* the path of the object a path names: each member name that is a hard link
\* is replaced by the path it links to
RECURSIVE Resolve(_, _, _)
Resolve(file, at, rest) ==
    IF rest = <<>> THEN at
    ELSE LET n == CHOOSE n \in file : n.path = Append(at, Head(rest))
         IN Resolve(file, IF n.kind = "link" THEN n.target ELSE n.path, Tail(rest))

\* h5_file.group(path) or h5_file.dataset(path): the member at a path
Member(file, path) == CHOOSE n \in file : n.path = Resolve(file, <<>>, path)

target_file == <<"/", "home", "/", "admin", "/", "uploaded_S-N1-01388_", "0", ".h5">>

LocalUrl == Url("http://localhost:5101", <<"/">>)

(***************************************************************************)
(* The tool's position.  `stack` holds the activations of                  *)
(* load_group_recursive, each with the group's path, its id at the service *)
(* and the index of the member it is at; `obj` is the group or dataset     *)
(* whose attributes or data are being copied, `j` the index of the         *)
(* attribute, `d` and `start` the chunk loop's variables,                  *)
(* `chunk_index` and `failed_chunks` its counters, `attributes_created`    *)
(* the counter of LoadStats.  `issued` keeps the value requests that the   *)
(* chunk loop of the dataset has made so far.  `created`,                  *)
(* `writes`, `sets`, `due`, `due_sets` and `abort` are not the tool's:     *)
(* they record the ids that successful creations returned, each with the  *)
(* path of the member it was created for, the value                        *)
(* writes and attribute calls made, the value writes and attribute calls   *)
(* that the datasets and attribute lists gone through call for, and the    *)
(* call whose failure ended the run.                                       *)
(***************************************************************************)
Frame(path, id, i) == [path |-> path, id |-> id, i |-> i]

NoObject == [path |-> <<>>, id |-> <<>>]

StartLoader(file) ==
    [pc |-> "main", file |-> file, stack |-> <<>>, obj |-> NoObject, j |-> 1,
     d |-> 0, start |-> 0, chunk_index |-> 0, failed_chunks |-> 0, attributes_created |-> 0,
     issued |-> <<>>,
     root |-> <<>>, created |-> {}, writes |-> 0, sets |-> 0, due |-> 0, due_sets |-> 0,
     abort |-> ""]

Top(l) == l.stack[Len(l.stack)]

\* the member the innermost activation is at
AtMember(l) ==
    LET f == Top(l) IN Member(l.file, Append(f.path, Member(l.file, f.path).members[f.i]))

MemberName(l) == LET f == Top(l) IN Member(l.file, f.path).members[f.i]

\* the loop over member_names moves on
NextMember(l) ==
    [l EXCEPT !.stack[Len(l.stack)].i = @ + 1, !.pc = "members", !.obj = NoObject, !.j = 1]

\* the run ends with the error of the named call
Aborted(l, op) == [l EXCEPT !.pc = "failed", !.abort = op]

\* mutant: a creation that failed is taken to have made the first group
created_id_or_guess(result) == IF result.ok THEN Some(result.v.id) ELSE Some(MkId("g", 0))

\* `?` on a creation's result: its id, or the error goes up
created_id(result) == IF result.ok THEN Some(result.v.id) ELSE None

\* mutant: `?` on a chunk write's result
chunk_written_or_abort(result) == [abort |-> ~result.ok, failed |-> 0]

\* the match on a chunk write's result: a failure is warned of and counted
chunk_written(result) == [abort |-> FALSE, failed |-> IF result.ok THEN 0 ELSE 1]

\* the match on set_attribute's result: a failure is warned of
attribute_set(result) == [abort |-> FALSE]

\* the match on the single write's result: a failure is warned of
single_written(result) == [abort |-> FALSE]

\* the chunk loops' variables after an iteration
AdvanceChunk(l) ==
    LET shape == Member(l.file, l.obj.path).shape
        next == l.start + chunk_step(shape)
    IN IF next < chunk_extent(shape) THEN [l EXCEPT !.start = next]
       ELSE [l EXCEPT !.start = 0, !.d = @ + 1]

\* the attributes of a member that copy_attribute_value makes a call for
Settable(node) ==
    {k \in 1..Len(node.attrs) :
        node.attrs[k].access = "ok" /\ read_attribute_by_type(node.attrs[k]).ok}

\* the value writes the chunk loops of a dataset make
ChunkWrites(ds) ==
    IF Len(ds.shape) = 1 /\ ~ChunkReadable(ds.dtype) THEN 0 ELSE total_chunks(ds.shape)

\* what the tool does with the result of the call it awaited
Taken(l, c) ==
    CASE l.pc = "main" ->
            IF ~c.result.ok THEN Aborted(l, c.op)
            ELSE IF ~c.result.v.root.some THEN [l EXCEPT !.pc = "panicked"]
            ELSE [l EXCEPT !.pc = "members", !.root = c.result.v.root.v,
                           !.stack = <<Frame(<<>>, c.result.v.root.v, 1)>>,
                           !.created = @ \cup {[path |-> <<>>, id |-> c.result.v.root.v]}]
      [] l.pc = "members" ->
            LET id == created_id(c.result) IN
            IF ~id.some THEN Aborted(l, c.op)
            ELSE [l EXCEPT !.obj = [path |-> AtMember(l).path, id |-> id.v], !.j = 1,
                           !.pc = IF c.op = "create_group" THEN "group_attrs" ELSE "data",
                           !.created = IF c.result.ok
                                       THEN @ \cup {[path |-> AtMember(l).path, id |-> id.v]}
                                       ELSE @]
      [] l.pc \in {"group_attrs", "dataset_attrs"} ->
            IF attribute_set(c.result).abort THEN Aborted(l, c.op)
            ELSE [l EXCEPT !.j = @ + 1, !.sets = @ + 1,
                           !.attributes_created = IF c.result.ok THEN @ + 1 ELSE @]
      [] l.pc = "data" ->
            IF single_written(c.result).abort THEN Aborted(l, c.op)
            ELSE [l EXCEPT !.pc = "dataset_attrs", !.j = 1, !.writes = @ + 1, !.due = @ + 1]
      [] l.pc = "chunks" ->
            LET o == chunk_written(c.result) IN
            IF o.abort THEN Aborted(l, c.op)
            ELSE AdvanceChunk([l EXCEPT !.failed_chunks = @ + o.failed, !.writes = @ + 1,
                                        !.chunk_index = @ + 1,
                                        !.issued = Append(@, c.args.params)])
      [] l.pc = "verify_domain" ->
            IF ~c.result.ok THEN Aborted(l, c.op)
            ELSE IF c.result.v.root.some
                 THEN [l EXCEPT !.pc = "verify_links",
                                !.obj = [path |-> <<>>, id |-> c.result.v.root.v]]
                 ELSE [l EXCEPT !.pc = "done"]
      [] OTHER ->
            IF ~c.result.ok THEN Aborted(l, c.op) ELSE [l EXCEPT !.pc = "done", !.obj = NoObject]

Running == loader.pc \notin {"off", "done", "failed", "panicked"}

\* the tool goes on without a call
Step(l) ==
    /\ loader' = l
    /\ UNCHANGED <<auth, base_url, parked, valuePool, call, wire, store, known>>

\* main: the target domain is created
LoadDomain ==
    /\ loader.pc = "main"
    /\ Start("create_domain", [domain |-> target_file, params |-> None],
             create_domain(Self, target_file, None))

\* load_group_recursive: the next member of the group, or the return to the caller
LoadMember ==
    /\ loader.pc = "members"
    /\ call.pc = "idle"
    /\ Len(loader.stack) <= MaxNesting
    /\ LET f == Top(loader)
           names == Member(loader.file, f.path).members
       IN IF f.i > Len(names)
          THEN Step(IF Len(loader.stack) = 1
                    THEN [loader EXCEPT !.stack = <<>>, !.pc = "verify_domain"]
                    ELSE NextMember([loader EXCEPT
                                        !.stack = SubSeq(@, 1, Len(loader.stack) - 1)]))
          ELSE LET m == AtMember(loader)
                   hsds_dtype == convert_hdf5_dtype_to_hsds(m.dtype)
               IN CASE m.kind = "group" ->
                         LET params == Some([link |-> Some([id |-> f.id, name |-> names[f.i]])])
                         IN Start("create_group",
                                  [domain |-> target_file, id |-> f.id, name |-> names[f.i]],
                                  create_group(Self, target_file, params))
                    [] m.kind = "dataset" /\ hsds_dtype.ok ->
                         LET params == from_hsds_type_with_link(hsds_dtype.v, m.shape, f.id,
                                                                names[f.i])
                         IN Start("create_dataset",
                                  [domain |-> target_file, id |-> f.id, name |-> names[f.i]],
                                  create_dataset(Self, target_file, params))
                    [] OTHER -> Step(NextMember(loader))

\* copy_group_attributes, copy_dataset_attributes: the next attribute, or the end of the list
LoadAttribute ==
    /\ loader.pc \in {"group_attrs", "dataset_attrs"}
    /\ call.pc = "idle"
    /\ LET node == Member(loader.file, loader.obj.path)
           gone == [loader EXCEPT !.due_sets = @ + Cardinality(Settable(node))]
       IN IF loader.j > Len(node.attrs)
          THEN Step(IF loader.pc = "group_attrs"
                    THEN [gone EXCEPT !.stack = Append(@, Frame(loader.obj.path, loader.obj.id, 1)),
                                      !.pc = "members", !.obj = NoObject, !.j = 1]
                    ELSE NextMember(gone))
          ELSE LET attr == node.attrs[loader.j]
                   value == read_attribute_by_type(attr)
               IN IF attr.access # "ok" \/ ~value.ok
                  THEN Step([loader EXCEPT !.j = @ + 1])
                  ELSE Start("set_attribute",
                             [domain |-> target_file, id |-> loader.obj.id, name |-> attr.name],
                             set_attribute(Self, target_file, loader.obj.id, attr.name, value.v))

\* copy_dataset_data: one write of the whole dataset, or the chunk loop is entered
LoadData ==
    /\ loader.pc = "data"
    /\ call.pc = "idle"
    /\ LET ds == Member(loader.file, loader.obj.path) IN
       IF IsChunked(ds)
       THEN Step(IF Len(ds.shape) = 1 \/ (Len(ds.shape) \in {2, 3} /\ ChunkReadable(ds.dtype))
                 THEN [loader EXCEPT !.pc = "chunks", !.d = 0, !.start = 0, !.chunk_index = 0,
                                     !.failed_chunks = 0, !.issued = <<>>]
                 ELSE [loader EXCEPT !.pc = "dataset_attrs", !.j = 1])
       ELSE Start("write_dataset_values",
                  [domain |-> target_file, id |-> loader.obj.id,
                   params |-> single_request(ds.shape)],
                  write_dataset_values(Self, target_file, loader.obj.id, single_request(ds.shape)))

\* copy_1d_chunked, copy_2d_chunked, copy_3d_chunked: one iteration of the chunk loop
LoadChunk ==
    /\ loader.pc = "chunks"
    /\ call.pc = "idle"
    /\ LET ds == Member(loader.file, loader.obj.path) IN
       IF loader.d >= chunk_slices(ds.shape)
       THEN Step([loader EXCEPT !.pc = "dataset_attrs", !.j = 1, !.due = @ + ChunkWrites(ds)])
       ELSE IF Len(ds.shape) = 1 /\ ~ChunkReadable(ds.dtype)
       THEN Step(AdvanceChunk([loader EXCEPT !.failed_chunks = @ + 1, !.chunk_index = @ + 1]))
       ELSE LET params == chunk_request(ds.shape, loader.d, loader.start) IN
            Start("write_dataset_values",
                  [domain |-> target_file, id |-> loader.obj.id, params |-> params],
                  write_dataset_values(Self, target_file, loader.obj.id, params))

\* verify_upload: the domain is read back, then the root group's links
LoadVerify ==
    \/ /\ loader.pc = "verify_domain"
       /\ Start("get_domain", [domain |-> target_file], get_domain(Self, target_file))
    \/ /\ loader.pc = "verify_links"
       /\ Start("list_links", [domain |-> target_file, id |-> loader.obj.id],
                list_links(Self, target_file, loader.obj.id, None, None))

\* the awaited call returns to the tool
LoadTake ==
    /\ Running
    /\ call.pc = "done"
    /\ loader' = Taken(loader, call)
    /\ call' = IdleCall
    /\ wire' = <<>>
    /\ UNCHANGED <<auth, base_url, parked, valuePool, store, known>>

(***************************************************************************)
(* The service the tool talks to: it does what is asked and answers with   *)
(* a fresh id for what it created, or answers 200 with an empty object, or *)
(* refuses.                                                                *)
(***************************************************************************)
Creations == {"create_domain", "create_group", "create_dataset"}

Uploaded(op, outcome, n, root) ==
    CASE outcome = "refused" -> Response(500, JsonBody(JObj([message |-> JStr(S("m"))])))
      [] outcome = "empty" -> Response(200, JsonBody(EmptyObj))
      [] op = "create_domain" ->
            Response(201, JsonBody(DomainJson([root |-> Some(MkId("g", n)), owner |-> S("admin")])))
      [] op = "get_domain" ->
            Response(200, JsonBody(DomainJson([root |-> Some(root), owner |-> S("admin")])))
      [] op = "create_group" -> Response(201, JsonBody(JObj([id |-> JStr(MkId("g", n))])))
      [] op = "create_dataset" -> Response(201, JsonBody(JObj([id |-> JStr(MkId("d", n))])))
      [] op = "list_links" -> Response(200, JsonBody(JObj([links |-> JArr(<<>>)])))
      [] OTHER -> Response(200, JsonBody(EmptyObj))

LoadRespond ==
    /\ call.pc = "waiting"
    /\ \E outcome \in {"ok", "empty", "refused"} :
          /\ Deliver(Uploaded(call.op, outcome, store.next, loader.root))
          /\ store' = IF outcome = "ok" /\ call.op \in Creations
                      THEN [store EXCEPT !.next = @ + 1] ELSE store
    /\ UNCHANGED <<auth, base_url, parked, loader, valuePool, wire, known>>

InitLoader ==
    /\ auth = BasicAuth(<<97, 100, 109, 105, 110>>, <<97, 100, 109, 105, 110>>)
    /\ base_url = LocalUrl
    /\ valuePool = {}
    /\ call = IdleCall
    /\ wire = <<>>
    /\ store = EmptyStore
    /\ known = Untracked
    /\ parked = <<>>
    /\ loader \in {StartLoader(file) : file \in H5Files}

NextLoader ==
    \/ LoadDomain
    \/ LoadMember
    \/ LoadAttribute
    \/ LoadData
    \/ LoadChunk
    \/ LoadVerify
    \/ LoadTake
    \/ Send
    \/ LoadRespond
    \/ TransportFail

SpecLoader == InitLoader /\ [][NextLoader]_vars

LoaderDone == loader.pc = "done"

(***************************************************************************)
(* C20: the size of the chunked upload's writes.                           *)
(***************************************************************************)
\* the value writes on the wire that the chunk loops sent
ChunkWritesSent ==
    {i \in 1..Len(wire) :
        loader.pc = "chunks" /\ wire[i].method = "PUT" /\ HasField(wire[i].body, "value")}

\* the number of elements a value write carries
Elements(req) == Product(req.body.fields["value"].dims)

\* C20 (as claimed): every write request that the upload tool's chunked copy
\* issues, for a 1-D, 2-D or 3-D dataset of any shape, carries at most
\* CHUNK_SIZE_ELEMENTS (32768) elements.
C20_ChunkBound == \A i \in ChunkWritesSent : Elements(wire[i]) <= CHUNK_SIZE_ELEMENTS

\* a chunk of one row that is wider than CHUNK_SIZE_ELEMENTS has been sent
C20_Witness ==
    \E i \in ChunkWritesSent :
        /\ Len(Member(loader.file, loader.obj.path).shape) \in {2, 3}
        /\ Elements(wire[i]) > CHUNK_SIZE_ELEMENTS

\* the chunks of a 1-D dataset, and of rows no wider than the bound, keep to it
C20_NarrowRows ==
    \A i \in ChunkWritesSent :
        LET shape == Member(loader.file, loader.obj.path).shape IN
        (Len(shape) = 1 \/ shape[Len(shape)] <= CHUNK_SIZE_ELEMENTS)
            => Elements(wire[i]) <= CHUNK_SIZE_ELEMENTS

(***************************************************************************)
(* C18: failures of single items do not end the upload.                    *)
(***************************************************************************)
\* the groups below the root and the datasets whose type the tool converts
Copied(file) ==
    {n \in file : \/ n.kind = "group" /\ n.path # <<>>
                  \/ n.kind = "dataset" /\ convert_hdf5_dtype_to_hsds(n.dtype).ok}

\* C18: in the upload tool a failed chunk write and a failed or unreadable
\* attribute copy never abort the upload: no run ends with the error of a
\* value write or of set_attribute, outside the chunk loop every chunk of
\* every dataset gone through has been attempted, outside the attribute loops
\* every readable attribute of every object gone through has been attempted,
\* and a run that ends well has created every group and every dataset.
C18_FailuresTolerated ==
    /\ loader.abort \notin {"write_dataset_values", "set_attribute"}
    /\ loader.pc # "chunks" => loader.writes = loader.due
    /\ loader.pc \notin {"group_attrs", "dataset_attrs"} => loader.sets = loader.due_sets
    /\ loader.pc \in {"verify_domain", "verify_links", "done"}
          => Cardinality(loader.created) = 1 + Cardinality(Copied(loader.file))

\* an upload has ended well although chunk writes and attribute calls failed
C18_Witness ==
    /\ loader.pc = "done"
    /\ loader.failed_chunks > 0
    /\ loader.attributes_created < loader.sets
    /\ loader.writes > 4

(***************************************************************************)
(* C19: the order of the upload's requests.                                *)
(***************************************************************************)
\* the tool has a call under way that has not returned to it
Awaiting == Running /\ call.pc \in {"ready", "waiting"}

\* the requests of the call under way: never more than one
OneAtATime == Len(wire) <= 1

\* a call that creates a member names the group it is in by the id that the
\* group's creation returned; a call on an object's attributes or values
\* names the object by the id that its creation returned
TargetsCreated ==
    call.pc # "idle" =>
        CASE call.op \in {"create_group", "create_dataset"} ->
                [path |-> Top(loader).path, id |-> call.args.id] \in loader.created
          [] call.op \in {"set_attribute", "write_dataset_values"} ->
                [path |-> loader.obj.path, id |-> call.args.id] \in loader.created
          [] OTHER -> TRUE

\* while a call is under way the tool is where it made the call
AwaitsEachCall == Awaiting => loader' = loader

\* C19: the upload tool issues its requests one after another: the call under
\* way has at most one request on the wire and the tool does not move until
\* the call has returned; a request for a group's attributes or members, and
\* a value write or attribute call for a dataset, is issued only with the id
\* that the successful creation of that group or dataset returned.
C19_OneAfterAnother == [](OneAtATime /\ TargetsCreated) /\ [][AwaitsEachCall]_vars

\* a value write is on the wire for a dataset created inside a created group
C19_Witness ==
    /\ call.op = "write_dataset_values"
    /\ call.pc = "waiting"
    /\ Len(wire) = 1
    /\ Len(loader.stack) = 2
    /\ [path |-> loader.obj.path, id |-> call.args.id] \in loader.created
    /\ [path |-> Top(loader).path, id |-> Top(loader).id] \in loader.created

(***************************************************************************)
(* C21: the chunk loops partition the dataset.                             *)
(***************************************************************************)
\* the position in the row-major flat array of the element at an index
RECURSIVE FlatIndex(_, _)
FlatIndex(shape, idx) ==
    IF shape = <<>> THEN 0
    ELSE Head(idx) * Product(Tail(shape)) + FlatIndex(Tail(shape), Tail(idx))

Extents(r) == [k \in 1..Len(r.start.v) |-> r.stop.v[k] - r.start.v[k]]
FirstOf(shape, r) == FlatIndex(shape, r.start.v)
LastOf(shape, r) == FlatIndex(shape, [k \in 1..Len(r.stop.v) |-> r.stop.v[k] - 1])

\* the dataset whose chunk loop is running or has just ended, if the loop
\* reads its element type
ChunkedDataset ==
    /\ loader.pc \in {"chunks", "dataset_attrs"}
    /\ LET ds == Member(loader.file, loader.obj.path) IN
       ds.kind = "dataset" /\ IsChunked(ds) /\ Len(ds.shape) \in {1, 2, 3}
          /\ ChunkReadable(ds.dtype)

\* a request's range lies in the dataset, is one run of the flat array, and
\* its value is the elements of that run, nested as the range is
RangeAndValue(shape, r) ==
    /\ Len(r.start.v) = Len(shape) /\ Len(r.stop.v) = Len(shape)
    /\ \A k \in 1..Len(shape) : 0 <= r.start.v[k] /\ r.start.v[k] < r.stop.v[k]
                                   /\ r.stop.v[k] <= shape[k]
    /\ LastOf(shape, r) - FirstOf(shape, r) + 1 = Product(Extents(r))
    /\ r.value.v.dims = Extents(r)
    /\ r.value.v.from = FirstOf(shape, r)

Deserializes(T, body) ==
    /\ body.parses
    /\ CASE T \in {"Group", "Dataset"} ->
               body.json.t = "obj" /\ "id" \in DOMAIN body.json.fields
               /\ body.json.fields["id"].t = "str"
         [] T = "Domain" -> parse_Domain(body.json).ok
         [] T = "Links" -> parse_Links(body.json).ok
         [] T = "Datasets" -> parse_Datasets(body.json).ok
         [] OTHER -> TRUE

SuccessAnswered == Answered /\ call.response.status \in 200..299

\* C22 (as claimed): for a 2xx response execute returns Ok when the body is
\* JSON of the expected type and the error of JSON (de)serialization (the
\* Json variant) when it is not; execute_bytes returns Ok with the body as it
\* came.
C22_SuccessResponses ==
    SuccessAnswered =>
        IF call.plan.mode = "bytes" THEN call.result = Ok(call.response.body)
        ELSE IF Deserializes(call.plan.T, call.response.body)
             THEN call.result.ok /\ call.result = deserialize(call.plan.T, call.response.body)
             ELSE ~call.result.ok /\ call.result.e.variant = "Json"

\* a 2xx response whose body is not of the expected type has been answered
\* with the Http variant
C22_Witness ==
    /\ SuccessAnswered
    /\ call.plan.mode = "json"
    /\ ~Deserializes(call.plan.T, call.response.body)
    /\ call.result = Err(DecodeError)
    /\ call.result.e.variant = "Http"

\* what the code does: the same, with the Http variant for a body that is not
\* of the expected type, and never the Json variant
C22_DecodeFailureIsHttp ==
    /\ SuccessAnswered =>
          IF call.plan.mode = "bytes" THEN call.result = Ok(call.response.body)
          ELSE IF Deserializes(call.plan.T, call.response.body) THEN call.result.ok
               ELSE ~call.result.ok /\ call.result.e.variant = "Http"
    /\ call.pc = "done" /\ ~call.result.ok => call.result.e.variant # "Json"

\* execute_bytes has returned the body of a 2xx response
C22_WitnessBytes ==
    SuccessAnswered /\ call.plan.mode = "bytes" /\ call.result = Ok(call.response.body)

(***************************************************************************)
(* C23: a rejected set_attribute sends nothing.  The calls are made        *)
(* against the service, with ids of every form and with values that        *)
(* serialize and values that do not.                                       *)
(***************************************************************************)
InitRejects ==
    /\ auth = BasicAuth(<<97, 100, 109, 105, 110>>, <<97, 100, 109, 105, 110>>)
    /\ base_url = ServiceUrl
    /\ parked = <<>>
    /\ loader = NoLoader
    /\ valuePool = SmallValues \cup {RVec(<<RInt(1), RBadMap>>), RStruct([a |-> RBadMap])}
    /\ call = IdleCall
    /\ wire = <<>>
    /\ store = EmptyStore
    /\ known = Untracked

NextRejects ==
    \/ CallCreateDomain
    \/ CallCreateGroup
    \/ CallDeleteDomain
    \/ CallSetAttribute
    \/ CallSetAttributeAuto
    \/ Send
    \/ ServerRespond
    \/ TransportFail
    \/ ResponseLost
    \/ Return

SpecRejects == InitRejects /\ [][NextRejects]_vars

\* serde_json::to_value fails on the value: it is, or holds, a map whose keys
\* are not strings
RECURSIVE Unserializable(_)
Unserializable(x) ==
    CASE x.r = "badmap" -> TRUE
      [] x.r = "vec" -> \E i \in 1..Len(x.items) : Unserializable(x.items[i])
      [] x.r = "struct" -> \E k \in DOMAIN x.fields : Unserializable(x.fields[k])
      [] OTHER -> FALSE

\* the call is a set_attribute with an id of no known prefix, or a
\* set_attribute or set_attribute_auto with a value that does not serialize
Rejected(c) ==
    \/ c.op = "set_attribute" /\ PrefixCollection(c.args.id) = ""
    \/ c.op \in {"set_attribute", "set_attribute_auto"} /\ Unserializable(c.args.value)

RejectedUnsent ==
    Rejected(call) =>
        /\ call.pc = "done"
        /\ ~call.result.ok /\ call.result.e.variant = "InvalidParameter"
        /\ ~call.answered
        /\ wire = <<>>

ServerUntouched == (Rejected(call) \/ Rejected(call')) => (wire' = <<>> /\ store' = store)

\* C23: a set_attribute whose object id has no known prefix, and a
\* set_attribute whose value cannot be serialized, returns InvalidParameter
\* at once: from the call to its return no request is on the wire and the
\* service's store does not change.
C23_RejectedWithoutRequest == [](RejectedUnsent) /\ [][ServerUntouched]_vars

\* a set_attribute of a good id with a value that does not serialize has been
\* rejected, at a service that holds a domain
C23_Witness ==
    /\ call.op = "set_attribute"
    /\ call.args.id = MkId("d", 2)
    /\ Unserializable(call.args.value)
    /\ call.pc = "done"
    /\ call.result = Err(HsdsError("InvalidParameter", 0, FailedToSerialize))
    /\ store.domains # {}

\* a set_attribute of an id of no known prefix has been rejected
C23_WitnessPrefix ==
    /\ call.op = "set_attribute"
    /\ call.args.id = MkId("x", 1)
    /\ ~Unserializable(call.args.value)
    /\ call.result = Err(HsdsError("InvalidParameter", 0, UnknownObjectIdFormat))
    /\ store.domains # {}

(***************************************************************************)
(* C24: credentials that give no header, and a base URL that nothing can   *)
(* be joined to.                                                           *)
(***************************************************************************)
\* Url::parse("mailto:admin@hsds"): a URL that cannot be a base
MailtoUrl == Url("mailto:", <<"admin@hsds">>)

RefusedAuthChoices ==
    {BasicAuth(<<117, 10>>, <<112>>),            \* a user name with a line feed
     BasicAuth(<<117>>, <<112, 0>>),             \* a password with a NUL
     BearerAuth(<<116, 10>>),                    \* a token with a line feed
     BearerAuth(<<116, 127>>),                   \* a token with a DEL
     BearerAuth(<<116, 111, 107>>)}              \* tok

InitRefused ==
    /\ auth \in RefusedAuthChoices
    /\ base_url \in {ServiceUrl, MailtoUrl}
    /\ parked = <<>>
    /\ loader = NoLoader
    /\ valuePool = SmallValues
    /\ call = IdleCall
    /\ wire = <<>>
    /\ store = EmptyStore
    /\ known = Untracked

SpecRefused == InitRefused /\ [][Next]_vars

ControlChar(b) == b < 32 \/ b = 127

HasControl(bytes) == \E i \in 1..Len(bytes) : ControlChar(bytes[i])

\* the user name, the password or the token holds a control character
ControlInCredentials ==
    HasControl(auth.username) \/ HasControl(auth.password) \/ HasControl(auth.token)

Unsent(variant) ==
    /\ ~call.plan.send
    /\ call.pc = "done"
    /\ call.result = Err(call.plan.err)
    /\ call.plan.err.variant = variant
    /\ wire = <<>>

\* C24 (as claimed): with a control character in the user name, the password
\* or the token every operation returns an Auth error and sends no request;
\* with a base URL that no path can be joined to, every operation returns a
\* Url error and sends no request.
C24_InvalidCredentials ==
    call.pc # "idle" =>
        /\ CannotBeABase(base_url) => Unsent("Url")
        /\ (~CannotBeABase(base_url) /\ ControlInCredentials) => Unsent("Auth")

\* C24 (amended): a Bearer token that is no valid header value makes every
\* operation return an Auth error, and a base URL that cannot be a base makes
\* every operation return a Url error (the URL is joined before the
\* credentials are applied), in both cases without a request; only a
\* set_attribute that rejects its id or value returns InvalidParameter first,
\* also without a request.  Basic credentials always give a header, whatever
\* their characters, and the request is built.
C24_NoHeaderNoRequest ==
    call.pc # "idle" =>
        LET bearer == auth.kind = "Bearer" /\ ~HeaderValueParses(AsciiBearer \o auth.token)
        IN /\ Rejected(call) => Unsent("InvalidParameter")
           /\ (CannotBeABase(base_url) /\ ~Rejected(call)) => Unsent("Url")
           /\ (~CannotBeABase(base_url) /\ bearer /\ ~Rejected(call)) => Unsent("Auth")
           /\ (~CannotBeABase(base_url) /\ auth.kind = "Basic" /\ ~Rejected(call))
                 => call.plan.send

\* an operation has returned the Auth error of a token with a line feed
C24_Witness ==
    /\ auth = BearerAuth(<<116, 10>>)
    /\ base_url = ServiceUrl
    /\ call.op = "create_group"
    /\ Unsent("Auth")

\* an operation has returned the Url error, the credentials being valid
C24_WitnessUrl == auth = BearerAuth(<<116, 111, 107>>) /\ call.op = "list_links" /\ Unsent("Url")

\* a request went out with Basic credentials that hold a control character
C24_WitnessBasic == auth.kind = "Basic" /\ ControlInCredentials /\ Len(wire) = 1

(***************************************************************************)
(* C25: the type and shape sent for arrays, null and objects.              *)
(***************************************************************************)
\* the value reached from an array by taking the first element again and
\* again: a value that is no array, or an empty array
RECURSIVE FirstLeaf(_)
FirstLeaf(x) ==
    IF x.r = "vec" /\ Len(x.items) > 0 THEN FirstLeaf(x.items[1]) ELSE x

\* the type of a value that is no array, and of an empty array
LeafType(x) ==
    CASE x.r = "int" -> NumericType("H5T_INTEGER", "H5T_STD_I64LE")
      [] x.r = "uint" ->
            NumericType("H5T_INTEGER", IF x.big THEN "H5T_STD_U64LE" ELSE "H5T_STD_I64LE")
      [] x.r = "float" -> NumericType("H5T_FLOAT", "H5T_IEEE_F64LE")
      [] x.r = "bool" -> NumericType("H5T_INTEGER", "H5T_STD_U8LE")
      [] OTHER -> VariableUtf8Type

\* C25: for a non-empty array the type sent is the type of the value reached
\* through the first elements, whatever the other elements are; for an empty
\* array it is the variable-length UTF-8 string type and the shape is [0];
\* for null and for an object it is the variable-length UTF-8 string type and
\* no shape is sent.
C25_TypeOfFirstElement ==
    AutoSent =>
        LET x == call.args.value
            fields == call.plan.req.body.fields
        IN /\ (x.r = "vec" /\ Len(x.items) > 0) => fields["type"] = LeafType(FirstLeaf(x))
           /\ (x.r = "vec" /\ Len(x.items) = 0) =>
                 /\ fields["type"] = VariableUtf8Type
                 /\ "shape" \in DOMAIN fields
                 /\ fields["shape"] = JArr(<<JU64(0)>>)
           /\ x.r \in {"unit", "nonfinite", "struct"} =>
                 /\ fields["type"] = VariableUtf8Type
                 /\ "shape" \notin DOMAIN fields

\* an array of an array of integers and a string has gone out typed as integers
C25_Witness ==
    /\ AutoSent
    /\ call.args.value = RVec(<<RVec(<<RInt(7), RInt(7)>>), RStr(S("z"))>>)
    /\ Len(wire) = 1
    /\ wire[1].body.fields["type"] = NumericType("H5T_INTEGER", "H5T_STD_I64LE")

\* an empty array, and an object, have gone out as strings
C25_WitnessEmpty ==
    /\ AutoSent /\ Len(wire) = 1
    /\ call.args.value = RVec(<<>>)
    /\ wire[1].body.fields["shape"] = JArr(<<JU64(0)>>)

(***************************************************************************)
(* C26: the dataset creation requests built from a type tag.               *)
(***************************************************************************)
\* type tags: the string tag, the tags the match lists, and tags it does not
HsdsTypeTags ==
    {S("H5T_STRING"), S("H5T_STD_U8LE"), S("H5T_STD_I8LE"), S("H5T_STD_U16LE"),
     S("H5T_STD_I16LE"), S("H5T_STD_U32LE"), S("H5T_STD_I32LE"), S("H5T_STD_I64LE"),
     S("H5T_IEEE_F32LE"), S("H5T_IEEE_F64LE"), S("H5T_STD_U64LE"), S("h5t_string"),
     S("H5T_STRING "), S("")}

\* a caller builds a request from a tag and dimensions
BuildFromHsdsType ==
    /\ call.pc = "idle"
    /\ \E tag \in HsdsTypeTags, dims \in DimSeqs :
          call' = [IdleCall EXCEPT
                      !.op = "from_hsds_type",
                      !.args = [hsds_type |-> tag, dimensions |-> dims],
                      !.pc = "done",
                      !.result = Ok(from_hsds_type(tag, dims))]
    /\ UNCHANGED <<auth, base_url, parked, loader, valuePool, wire, store, known>>

\* a caller builds a request linked into a parent group
BuildFromHsdsTypeWithLink ==
    /\ call.pc = "idle"
    /\ \E tag \in HsdsTypeTags, dims \in DimSeqs, l \in LinkRequests :
          call' = [IdleCall EXCEPT
                      !.op = "from_hsds_type_with_link",
                      !.args = [hsds_type |-> tag, dimensions |-> dims,
                                parent_group_id |-> l.id, dataset_name |-> l.name],
                      !.pc = "done",
                      !.result = Ok(from_hsds_type_with_link(tag, dims, l.id, l.name))]
    /\ UNCHANGED <<auth, base_url, parked, loader, valuePool, wire, store, known>>

\* the caller takes the request built
TakeBuilt ==
    /\ call.pc = "done"
    /\ call.op \in {"from_hsds_type", "from_hsds_type_with_link"}
    /\ call' = IdleCall
    /\ UNCHANGED <<auth, base_url, parked, loader, valuePool, wire, store, known>>

InitBuild ==
    /\ auth = NoAuth
    /\ base_url = ServiceUrl
    /\ parked = <<>>
    /\ loader = NoLoader
    /\ valuePool = {}
    /\ call = IdleCall
    /\ wire = <<>>
    /\ store = EmptyStore
    /\ known = Untracked

NextBuild == BuildFromHsdsType \/ BuildFromHsdsTypeWithLink \/ TakeBuilt

SpecBuild == InitBuild /\ [][NextBuild]_vars

Built == call.pc = "done" /\ call.op \in {"from_hsds_type", "from_hsds_type_with_link"}

\* C26: the tag "H5T_STRING" gives the structured string type (class H5T_STRING,
\* ASCII, null-padded, variable length) and every other tag a predefined type
\* carrying the tag; the shape is the given dimensions, there are no maxdims and
\* no creation properties; from_hsds_type sets no link and
\* from_hsds_type_with_link sets the link to the given parent id and name.
C26_RequestFromTag ==
    Built =>
        LET a == call.args
            r == call.result.v
        IN /\ a.hsds_type = S("H5T_STRING") =>
                 /\ r.data_type.variant = "String"
                 /\ r.data_type.sdt.class = S("H5T_STRING")
                 /\ r.data_type.sdt.char_set = "Ascii"
                 /\ r.data_type.sdt.str_pad = "NullPad"
                 /\ r.data_type.sdt.length.variant = "Variable"
           /\ a.hsds_type # S("H5T_STRING") =>
                 /\ r.data_type.variant = "Predefined"
                 /\ r.data_type.tag = a.hsds_type
           /\ r.shape.some /\ r.shape.v.variant = "Dimensions"
           /\ r.shape.v.dims = a.dimensions
           /\ ~r.maxdims.some
           /\ ~r.creation_properties.some
           /\ call.op = "from_hsds_type" => ~r.link.some
           /\ call.op = "from_hsds_type_with_link" =>
                 /\ r.link.some
                 /\ r.link.v.id = a.parent_group_id
                 /\ r.link.v.name = a.dataset_name
                 /\ DOMAIN r.link.v = {"id", "name"}
           /\ DOMAIN r = {"data_type", "shape", "maxdims", "creation_properties", "link"}

\* a tag the match does not list has given a predefined type with a link
C26_Witness ==
    /\ Built
    /\ call.op = "from_hsds_type_with_link"
    /\ call.args.hsds_type = S("H5T_STD_U64LE")
    /\ call.args.dimensions = <<2, 1>>
    /\ call.result.v.data_type = Predefined(S("H5T_STD_U64LE"))

\* the string tag has given the structured string type
C26_WitnessString ==
    /\ Built
    /\ call.op = "from_hsds_type"
    /\ call.args.hsds_type = S("H5T_STRING")
    /\ call.result.v.data_type.variant = "String"

(***************************************************************************)
(* The calls that address an object by its id, with ids of every kind:     *)
(* plain, and holding the characters that split or end a URL path.         *)
(***************************************************************************)
IdsOfKind(p) ==
    {<<p, "-", "1">>,
     <<p, "-", "1", "/", "x">>,
     <<p, "-", "1", "/", ".", ".", "/", ".", ".", "/", "datatypes", "/", "t-9">>,
     <<p, "-", "1", "?", "domain", "=", "/", "other">>,
     <<p, "-", "1", "#">>}

AllIds == IdsOfKind("g") \cup IdsOfKind("d") \cup IdsOfKind("t")

PlainName == {<<"a">>}

InitIds ==
    /\ auth = NoAuth
    /\ base_url = ServiceUrl
    /\ parked = <<>>
    /\ loader = NoLoader
    /\ valuePool = {RInt(7)}
    /\ call = IdleCall
    /\ wire = <<>>
    /\ store = EmptyStore
    /\ known = [Untracked EXCEPT !.tracking = TRUE, !.ids = AllIds,
                                 !.names = PlainName, !.attr_names = PlainName]

NextIds ==
    \/ CallGetGroup \/ CallDeleteGroup \/ CallListLinks
    \/ CallCreateLink \/ CallGetLink \/ CallDeleteLink
    \/ CallCreateHardLink \/ CallCreateSoftLink \/ CallCreateExternalLink
    \/ CallGetDataset \/ CallDeleteDataset \/ CallGetDatasetShape \/ CallUpdateDatasetShape
    \/ CallGetDatasetType \/ CallWriteDatasetValues \/ CallReadDatasetValues
    \/ CallReadDatasetValuesJson \/ CallReadDatasetPoints
    \/ CallGetDatatype \/ CallDeleteDatatype
    \/ CallListAttributes \/ CallSetAttributeRaw \/ CallGetAttribute \/ CallDeleteAttribute
    \/ CallListGroupAttributes \/ CallListDatasetAttributes \/ CallListDatatypeAttributes
    \/ CallSetAttributeAuto \/ CallSetAttribute
    \/ Send \/ TransportFail \/ Return

SpecIds == InitIds /\ [][NextIds]_vars

(***************************************************************************)
(* C27: the request of a call that addresses an object by its id.          *)
(***************************************************************************)
GroupIdOps == {"get_group", "delete_group", "list_links", "list_group_attributes"} \cup LinkOps
DatasetIdOps ==
    {"get_dataset", "delete_dataset", "get_dataset_shape", "update_dataset_shape",
     "get_dataset_type", "write_dataset_values", "read_dataset_values",
     "read_dataset_values_json", "read_dataset_points", "list_dataset_attributes"}
DatatypeIdOps == {"get_datatype", "delete_datatype", "list_datatype_attributes"}
CollectionIdOps == {"list_attributes", "set_attribute_raw", "set_attribute_auto",
                    "get_attribute", "delete_attribute"}

IdSent ==
    /\ call.op \in GroupIdOps \cup DatasetIdOps \cup DatatypeIdOps \cup CollectionIdOps
                      \cup {"set_attribute"}
    /\ Len(wire) = 1

\* the first segment of the operation's path: the kind of resource
IdCollection ==
    CASE call.op \in GroupIdOps -> S("groups")
      [] call.op \in DatasetIdOps -> S("datasets")
      [] call.op \in DatatypeIdOps -> S("datatypes")
      [] call.op = "set_attribute" -> S(PrefixCollection(call.args.id))
      [] OTHER -> call.args.collection

\* the segments of the operation's path that follow the id
IdTail ==
    CASE call.op \in LinkOps -> <<S("links"), urlencode(call.args.name)>>
      [] call.op \in AttrNameOps -> <<S("attributes"), urlencode(call.args.name)>>
      [] call.op = "list_links" -> <<S("links")>>
      [] call.op \in {"get_dataset_shape", "update_dataset_shape"} -> <<S("shape")>>
      [] call.op = "get_dataset_type" -> <<S("type")>>
      [] call.op \in {"write_dataset_values", "read_dataset_values",
                      "read_dataset_values_json", "read_dataset_points"} -> <<S("value")>>
      [] call.op \in {"list_attributes", "list_group_attributes", "list_dataset_attributes",
                      "list_datatype_attributes"} -> <<S("attributes")>>
      [] OTHER -> <<>>

\* the request has one `domain` parameter, the domain argument
OneDomain(req, domain) ==
    LET at == {i \in 1..Len(req.query) : req.query[i].k = "domain"}
    IN /\ Cardinality(at) = 1
       /\ \A i \in at : req.query[i].v = FormEncode(domain)

\* the path is the kind, the id as one encoded segment, and the operation's tail
IdIsOneSegment(req, id) ==
    LET segs == SplitPath(req.path)
    IN /\ Len(segs) = 2 + Len(IdTail)
       /\ segs[1] = IdCollection
       /\ IsEncodedSegment(segs[2])
       /\ PctDecode(segs[2]) = id
       /\ SubSeq(segs, 3, Len(segs)) = IdTail

\* C27: for every operation that takes an object id and every id, the request
\* sent carries exactly one `domain` query parameter, equal to the domain
\* argument, and its path is the operation's path with the id as a single
\* segment.
C27_IdIsOneSegment ==
    IdSent => /\ OneDomain(wire[1], call.args.domain)
              /\ IdIsOneSegment(wire[1], call.args.id)

HasPathChar(id) == \E i \in 1..Len(id) : id[i] \in {"/", "?", "#"}

\* the same for the ids that hold no '/', '?' or '#'
C27_PlainIds ==
    (IdSent /\ ~HasPathChar(call.args.id)) =>
        /\ OneDomain(wire[1], call.args.domain)
        /\ IdIsOneSegment(wire[1], call.args.id)

\* delete_dataset of an id that holds a query has gone out with two `domain`
\* parameters, the id's first
C27_Witness ==
    /\ IdSent
    /\ call.op = "delete_dataset"
    /\ call.args.id = <<"d", "-", "1", "?", "domain", "=", "/", "other">>
    /\ wire[1].method = "DELETE"
    /\ wire[1].path = <<"/", "datasets", "/", "d", "-", "1">>
    /\ Len(wire[1].query) = 2
    /\ wire[1].query[1] = Pair("domain", <<"/", "other">>)
    /\ wire[1].query[2] = Pair("domain", FormEncode(call.args.domain))

\* delete_group of an id that holds dot segments has gone to a datatype
C27_WitnessKind ==
    /\ IdSent
    /\ call.op = "delete_group"
    /\ wire[1].method = "DELETE"
    /\ wire[1].path = <<"/", "datatypes", "/", "t-9">>

\* delete_attribute of an id that ends in '#' has gone to the object itself
C27_WitnessFragment ==
    /\ IdSent
    /\ call.op = "delete_attribute"
    /\ call.args.id = <<"g", "-", "1", "#">>
    /\ wire[1].method = "DELETE"
    /\ wire[1].path = <<"/">> \o call.args.collection \o <<"/", "g", "-", "1">>

(***************************************************************************)
(* C28: the variant of a 404, and the variants no operation returns.       *)
(***************************************************************************)
UnusedVariants == {"DomainNotFound", "InvalidResponse", "OperationFailed"}

\* C28: a response with status 404 gives ObjectNotFound for every operation,
\* the domain operations included, and no operation returns DomainNotFound,
\* InvalidResponse or OperationFailed.
C28_NotFoundIsObjectNotFound ==
    /\ (call.answered /\ call.response.status = 404) =>
            (~call.result.ok /\ call.result.e.variant = "ObjectNotFound")
    /\ (call.pc = "done" /\ ~call.result.ok) => call.result.e.variant \notin UnusedVariants

\* get_domain has been answered 404 and has returned ObjectNotFound
C28_Witness ==
    /\ call.op = "get_domain"
    /\ call.pc = "done"
    /\ call.answered
    /\ call.response.status = 404
    /\ call.result = Err(HsdsError("ObjectNotFound", 0, call.result.e.message))

(***************************************************************************)
(* The upload tool on files with hard links, against a service that        *)
(* answers every request.                                                  *)
(***************************************************************************)
InitLinked ==
    /\ auth = BasicAuth(<<97, 100, 109, 105, 110>>, <<97, 100, 109, 105, 110>>)
    /\ base_url = LocalUrl
    /\ valuePool = {}
    /\ call = IdleCall
    /\ wire = <<>>
    /\ store = EmptyStore
    /\ known = Untracked
    /\ parked = <<>>
    /\ loader \in {StartLoader(file) : file \in LinkedFiles}

NextLinked ==
    \/ LoadDomain
    \/ LoadMember
    \/ LoadAttribute
    \/ LoadData
    \/ LoadChunk
    \/ LoadVerify
    \/ LoadTake
    \/ Send
    \/ LoadRespond

SpecLinked == InitLinked /\ [][NextLinked]_vars

(***************************************************************************)
(* C29: the end of load_group_recursive.  An activation does the same for  *)
(* the same group whenever its requests succeed: it creates each member    *)
(* and enters each member that is a group.  So an activation for a group   *)
(* that an enclosing activation is for enters that group again, and the    *)
(* recursion has no end.                                                   *)
(***************************************************************************)
\* the group an activation is for
GroupOf(l, k) == Resolve(l.file, <<>>, l.stack[k].path)

Reentered(l) ==
    \E k \in 1..Len(l.stack) : \E m \in 1..(k - 1) : GroupOf(l, k) = GroupOf(l, m)

\* C29: load_group_recursive terminates for every file, whatever its links,
\* when every request gets a response: no activation is for a group that an
\* activation around it is for.
C29_Terminates == loader.pc # "off" => ~Reentered(loader)

\* the tool is in the root group again, three activations inside the root's own
C29_Witness ==
    /\ loader.pc = "members"
    /\ loader.file = CycleFile
    /\ Len(loader.stack) = 3
    /\ GroupOf(loader, 3) = GroupOf(loader, 1)
    /\ loader.abort = ""

\* for the file without a cycle, where a group has two names, no group is
\* entered inside itself and the nesting is at most the number of groups
C29_SharedDepth ==
    (loader.pc # "off" /\ loader.file = SharedFile) =>
        /\ Len(loader.stack) <= 2
        /\ ~Reentered(loader)

\* the group /a of the shared file has been created a second time, as /b,
\* and the run has come to its end
C29_WitnessShared ==
    /\ loader.file = SharedFile
    /\ loader.pc = "done"
    /\ Cardinality({c \in loader.created : Resolve(loader.file, <<>>, c.path) = <<S("a")>>}) = 2

\* the nesting grows as far as it is followed
C29_WitnessDeep ==
    /\ loader.file = CycleFile
    /\ Len(loader.stack) = MaxNesting + 1
    /\ loader.abort = ""

(***************************************************************************)
(* Deserialize of the request types (models.rs).  An untagged enum tries   *)
(* its variants in the order they are declared and takes the first that    *)
(* the JSON value deserializes into; a struct takes the fields it knows    *)
(* from an object and ignores the others; an Option field that is absent   *)
(* or null is None.                                                        *)
(***************************************************************************)
de_String(json) == IF json.t = "str" THEN Ok(json.s) ELSE Err("decode")

de_u32(json) ==
    IF json.t = "num" /\ json.n.kind = "PosInt" /\ ~json.n.big THEN Ok(json.n.v)
    ELSE Err("decode")

de_StringLength(json) ==
    IF de_String(json).ok THEN Ok(StringLengthVariable(json.s))
    ELSE IF de_u32(json).ok THEN Ok(StringLengthFixed(json.n.v))
    ELSE Err("decode")

de_StringCharSet(json) ==
    IF json = JStr(S("H5T_CSET_ASCII")) THEN Ok("Ascii")
    ELSE IF json = JStr(S("H5T_CSET_UTF8")) THEN Ok("Utf8")
    ELSE Err("decode")

de_StringPadding(json) ==
    IF json = JStr(S("H5T_STR_NULLPAD")) THEN Ok("NullPad")
    ELSE IF json = JStr(S("H5T_STR_NULLTERM")) THEN Ok("NullTerm")
    ELSE IF json = JStr(S("H5T_STR_SPACEPAD")) THEN Ok("SpacePad")
    ELSE Err("decode")

de_DataType(json) ==
    IF json.t # "obj" THEN Err("decode")
    ELSE IF ~HasField(json, "class") \/ ~de_String(json.fields["class"]).ok THEN Err("decode")
    ELSE IF HasField(json, "base") /\ json.fields["base"].t \notin {"null", "str"}
    THEN Err("decode")
    ELSE Ok([class |-> json.fields["class"].s,
             base |-> IF HasField(json, "base") /\ json.fields["base"].t = "str"
                      THEN Some(json.fields["base"].s) ELSE None,
             fields |-> IF HasField(json, "fields") /\ json.fields["fields"].t # "null"
                        THEN Some(json.fields["fields"]) ELSE None])

de_StringDataType(json) ==
    IF json.t # "obj" THEN Err("decode")
    ELSE IF {"class", "charSet", "strPad", "length"} \ DOMAIN json.fields # {} THEN Err("decode")
    ELSE LET class == de_String(json.fields["class"])
             char_set == de_StringCharSet(json.fields["charSet"])
             str_pad == de_StringPadding(json.fields["strPad"])
             length == de_StringLength(json.fields["length"])
         IN IF class.ok /\ char_set.ok /\ str_pad.ok /\ length.ok
            THEN Ok([class |-> class.v, char_set |-> char_set.v, str_pad |-> str_pad.v,
                     length |-> length.v])
            ELSE Err("decode")

\* DataTypeSpec: Predefined, then Custom, then String
de_DataTypeSpec(json) ==
    IF de_String(json).ok THEN Ok(Predefined(de_String(json).v))
    ELSE IF de_DataType(json).ok THEN Ok(Custom(de_DataType(json).v))
    ELSE IF de_StringDataType(json).ok THEN Ok(StringSpec(de_StringDataType(json).v))
    ELSE Err("decode")

de_u64_seq(json) ==
    IF json.t = "arr" /\ \A i \in 1..Len(json.items) :
                            json.items[i].t = "num" /\ json.items[i].n.kind = "PosInt"
    THEN Ok([i \in 1..Len(json.items) |-> json.items[i].n.v])
    ELSE Err("decode")

\* ShapeSpec: Dimensions, then Null
de_ShapeSpec(json) ==
    IF de_u64_seq(json).ok THEN Ok(Dimensions(de_u64_seq(json).v))
    ELSE IF de_String(json).ok THEN Ok(NullShape(json.s))
    ELSE Err("decode")

(***************************************************************************)
(* The request types written to JSON and read back.                        *)
(***************************************************************************)
StringLengths ==
    {StringLengthVariable(S("H5T_VARIABLE")), StringLengthVariable(S(""))}
        \cup {StringLengthFixed(n) : n \in 0..MaxLen}

StringDataTypes ==
    {[class |-> c, char_set |-> cs, str_pad |-> p, length |-> l] :
        c \in {S("H5T_STRING"), S("")}, cs \in {"Ascii", "Utf8"},
        p \in {"NullPad", "NullTerm", "SpacePad"}, l \in StringLengths}

DataTypes ==
    {[class |-> c, base |-> b, fields |-> f] :
        c \in {S("H5T_COMPOUND"), S("H5T_STRING")},
        b \in OptionOf({S("H5T_STD_I32LE")}),
        f \in OptionOf({JNull, JArr(<<>>), JObj([charSet |-> JStr(S("H5T_CSET_ASCII"))])})}

DataTypeSpecs ==
    {Predefined(tag) : tag \in HsdsTypeTags} \cup {Custom(dt) : dt \in DataTypes}
        \cup {StringSpec(sdt) : sdt \in StringDataTypes}

ShapeSpecs ==
    {Dimensions(dims) : dims \in DimSeqs} \cup {NullShape(S("H5S_NULL")), NullShape(S(""))}

\* a value is written with serde_json::to_value and read back with from_value
RoundTrip(T, value, back) ==
    /\ call.pc = "idle"
    /\ call' = [IdleCall EXCEPT !.op = T, !.args = [value |-> value], !.pc = "done",
                                !.result = back]
    /\ UNCHANGED <<auth, base_url, parked, loader, valuePool, wire, store, known>>

RoundTripDataTypeSpec ==
    \E t \in DataTypeSpecs : RoundTrip("DataTypeSpec", t, de_DataTypeSpec(ser_DataTypeSpec(t)))

RoundTripShapeSpec ==
    \E sh \in ShapeSpecs : RoundTrip("ShapeSpec", sh, de_ShapeSpec(ser_ShapeSpec(sh)))

RoundTripStringLength ==
    \E l \in StringLengths : RoundTrip("StringLength", l, de_StringLength(ser_StringLength(l)))

RoundTripTypes == {"DataTypeSpec", "ShapeSpec", "StringLength"}

\* the caller takes the value read back
TakeRoundTrip ==
    /\ call.pc = "done"
    /\ call.op \in RoundTripTypes
    /\ call' = IdleCall
    /\ UNCHANGED <<auth, base_url, parked, loader, valuePool, wire, store, known>>

NextRoundTrip ==
    RoundTripDataTypeSpec \/ RoundTripShapeSpec \/ RoundTripStringLength \/ TakeRoundTrip

SpecRoundTrip == InitBuild /\ [][NextRoundTrip]_vars

(***************************************************************************)
(* C30: the round trip of DataTypeSpec, ShapeSpec and StringLength.        *)
(***************************************************************************)
ReadBack == call.pc = "done" /\ call.op \in RoundTripTypes

\* C30: a DataTypeSpec, a ShapeSpec or a StringLength written to JSON and read
\* back is the same variant with the same content.
C30_RoundTrip == ReadBack => call.result = Ok(call.args.value)

\* the values that come back as another: the structured string types, and the
\* custom types whose `fields` is the JSON null
ComesBackChanged(op, value) ==
    /\ op = "DataTypeSpec"
    /\ \/ value.variant = "String"
       \/ value.variant = "Custom" /\ value.dt.fields = Some(JNull)

\* every other value comes back as it was
C30_OtherValues ==
    (ReadBack /\ ~ComesBackChanged(call.op, call.args.value)) => call.result = Ok(call.args.value)

\* a structured string type comes back as the custom type of its class
C30_StringComesBackCustom ==
    (ReadBack /\ call.op = "DataTypeSpec" /\ call.args.value.variant = "String") =>
        call.result = Ok(Custom([class |-> call.args.value.sdt.class, base |-> None,
                                 fields |-> None]))

\* the variable-length ASCII string type has come back as a custom type
C30_Witness ==
    /\ ReadBack
    /\ call.op = "DataTypeSpec"
    /\ call.args.value = StringSpec(variable_ascii)
    /\ call.result.ok
    /\ call.result.v.variant = "Custom"

\* a custom type with a base and fields has come back as it was
C30_WitnessCustom ==
    /\ ReadBack
    /\ call.args.value = Custom([class |-> S("H5T_COMPOUND"), base |-> Some(S("H5T_STD_I32LE")),
                                 fields |-> Some(JArr(<<>>))])
    /\ call.result = Ok(call.args.value)
====
